---------------------------- MODULE Spec2Model ----------------------------
(***************************************************************************)
(* A model of OpenSim's DeGrooteFregly2016Muscle (the muscle-tendon       *)
(* contraction dynamics of De Groote et al. 2016), of the Moco model      *)
(* operators that set its properties, and of PropertyDbl.                 *)
(*                                                                         *)
(* SimTK::Real (double) values are modelled in fixed point: the integer n *)
(* stands for the real number n / Scale.  Infinity and NaN are two        *)
(* integers outside the range of the finite values.                       *)
(***************************************************************************)
EXTENDS Integers, Sequences, FiniteSets, TLC

---------------------------------------------------------------------------
(* Fixed-point arithmetic standing for the double arithmetic of the code. *)

\* The resolution: a double x is the integer nearest to x * Scale.
Scale == 100 * 100

Infinity == 2000000000

NaN == -2100000000

Abs(x) == IF x < 0 THEN -x ELSE x

Sign(x) == IF x < 0 THEN -1 ELSE 1

IsNaN(x) == x = NaN

IsInf(x) == x = Infinity \/ x = -Infinity

IsFinite(x) == ~IsNaN(x) /\ ~IsInf(x)

Neg(a) == IF IsNaN(a) THEN NaN ELSE -a

\* A sum beyond the fixed-point range is infinite, as a double beyond the
\* range of the doubles is.
Add(a, b) ==
    IF IsNaN(a) \/ IsNaN(b) THEN NaN
    ELSE IF IsInf(a) THEN (IF b = -a THEN NaN ELSE a)
    ELSE IF IsInf(b) THEN b
    ELSE IF a > 0 /\ b > 0 /\ a >= Infinity - b THEN Infinity
    ELSE IF a < 0 /\ b < 0 /\ a <= -Infinity - b THEN -Infinity
    ELSE a + b

Sub(a, b) == Add(a, Neg(b))

\* |a| * |b| / Scale rounded to nearest, computed in four partial products
\* so that no intermediate value leaves the 32-bit range.
\* A product beyond the fixed-point range is infinite.
MulAbs(a, b) ==
    LET ah == a \div Scale
        al == a % Scale
        bh == b \div Scale
        bl == b % Scale
    IN  IF bh > 0 /\ ah > (Infinity \div Scale) \div bh THEN Infinity
        ELSE IF ah * bh + ah + bh + 1 > Infinity \div Scale THEN Infinity
        ELSE ah * bh * Scale + ah * bl + al * bh
             + (al * bl + Scale \div 2) \div Scale

Mul(a, b) ==
    IF IsNaN(a) \/ IsNaN(b) THEN NaN
    ELSE IF IsInf(a) \/ IsInf(b)
         THEN (IF a = 0 \/ b = 0 THEN NaN ELSE Sign(a) * Sign(b) * Infinity)
    ELSE Sign(a) * Sign(b) * MulAbs(Abs(a), Abs(b))

\* |a| * Scale / |b| rounded to nearest, b > 0, without overflow.
\* A divisor above 100000 is first reduced, with the remainder, by a
\* common factor k (relative error below 1e-5).
\* A quotient beyond the fixed-point range is infinite.
DivAbs(a, b) ==
    LET q == a \div b
        r == a % b
        k == b \div 100000 + 1
        rr == r \div k
        bb == b \div k
    IN  IF q >= Infinity \div Scale THEN Infinity
        ELSE q * Scale + (2 * rr * Scale + bb) \div (2 * bb)

Div(a, b) ==
    IF IsNaN(a) \/ IsNaN(b) THEN NaN
    ELSE IF IsInf(a) THEN (IF IsInf(b) THEN NaN ELSE Sign(a) * Sign(b) * Infinity)
    ELSE IF IsInf(b) THEN 0
    ELSE IF b = 0 THEN (IF a = 0 THEN NaN ELSE Sign(a) * Infinity)
    ELSE Sign(a) * Sign(b) * DivAbs(Abs(a), Abs(b))

square(x) == Mul(x, x)

\* Integer square root by Newton's iteration from above.
RECURSIVE ISqrtFrom(_, _)
ISqrtFrom(n, r) ==
    LET r2 == (r + n \div r) \div 2
    IN  IF r2 >= r THEN r ELSE ISqrtFrom(n, r2)

ISqrt(n) == IF n <= 0 THEN 0 ELSE ISqrtFrom(n, IF n > 46340 THEN 46340 ELSE n)

\* sqrt(): NaN below zero, as in IEEE arithmetic.
sqrt(x) ==
    IF IsNaN(x) \/ x < 0 THEN NaN
    ELSE IF x = Infinity THEN Infinity
    ELSE IF x <= 200000 THEN ISqrt(x * Scale)
    ELSE IF x <= 20000000 THEN ISqrt(x * 100) * 10
    ELSE ISqrt(x) * 100

\* Scale * e^n for the integers n in -10 .. 12.
EPow ==
    [n \in -10 .. 12 |->
        CASE n = -10 -> 0          [] n = -9 -> 1           [] n = -8 -> 3
          [] n = -7 -> 9           [] n = -6 -> 25          [] n = -5 -> 67
          [] n = -4 -> 183         [] n = -3 -> 498         [] n = -2 -> 1353
          [] n = -1 -> 3679        [] n = 0 -> 10000        [] n = 1 -> 27183
          [] n = 2 -> 73891        [] n = 3 -> 200855       [] n = 4 -> 545982
          [] n = 5 -> 1484132      [] n = 6 -> 4034288      [] n = 7 -> 10966332
          [] n = 8 -> 29809580     [] n = 9 -> 81030839     [] n = 10 -> 220264658
          [] n = 11 -> 598741417   [] n = 12 -> 1627547914]

\* e^(r/Scale) for |r| <= Scale/2: the Taylor polynomial of degree 6.
ExpFrac(r) ==
    LET t6 == Scale + r \div 6
        t5 == Scale + Mul(r, t6) \div 5
        t4 == Scale + Mul(r, t5) \div 4
        t3 == Scale + Mul(r, t4) \div 3
        t2 == Scale + Mul(r, t3) \div 2
    IN  Scale + Mul(r, t2)

\* exp(): the argument is split into its nearest integer and a fraction.
\* Above e^12 the fixed-point range ends and the value is Infinity (the
\* double overflows at e^709).
exp(x) ==
    IF IsNaN(x) THEN NaN
    ELSE IF x = Infinity THEN Infinity
    ELSE IF x = -Infinity THEN 0
    ELSE LET n == (x + Scale \div 2) \div Scale
             r == x - n * Scale
         IN  IF n < -10 THEN 0
             ELSE IF n > 12 \/ (n = 12 /\ r > 0) THEN Infinity
             ELSE Mul(EPow[n], ExpFrac(r))

\* log(): NaN below zero, -Infinity at zero.  The argument is reduced to
\* m in [1, e) by the table of powers of e, and ln m = 2 atanh((m-1)/(m+1)).
RECURSIVE LogIndex(_, _)
LogIndex(y, n) == IF n >= 12 \/ y < EPow[n + 1] THEN n ELSE LogIndex(y, n + 1)

\* 2 atanh(u) by its series up to u^9, u2 being the square of u.
LogSeries(u, u2) ==
    2 * Mul(u, Scale + Mul(u2, Scale \div 3 + Mul(u2, Scale \div 5
              + Mul(u2, Scale \div 7 + Mul(u2, Scale \div 9)))))

\* ln m for m in [1, e).
LogMantissa(u) == LogSeries(u, Mul(u, u))

\* ln y, n being the index of the power of e below y.
LogFrom(y, n) ==
    n * Scale + LogMantissa(Div(Div(y, EPow[n]) - Scale, Div(y, EPow[n]) + Scale))

log(y) ==
    IF IsNaN(y) \/ y < 0 THEN NaN
    ELSE IF y = 0 THEN -Infinity
    ELSE IF y = Infinity THEN Infinity
    ELSE LogFrom(y, LogIndex(y, -9))

\* sinh(x) = (e^x - e^-x) / 2.
sinh(x) == Div(Sub(exp(x), exp(Neg(x))), 2 * Scale)

\* sin(x) for x in [0, pi/2]: the Taylor polynomial of degree 9.
sin(x) ==
    LET x2 == Mul(x, x)
        t7 == Scale - x2 \div 72
        t5 == Scale - Mul(x2, t7) \div 42
        t3 == Scale - Mul(x2, t5) \div 20
        t1 == Scale - Mul(x2, t3) \div 6
    IN  Mul(x, t1)

\* Comparisons of doubles: every comparison with NaN is false.
Lt(a, b) == ~IsNaN(a) /\ ~IsNaN(b) /\ a < b

Gt(a, b) == Lt(b, a)

Le(a, b) == ~IsNaN(a) /\ ~IsNaN(b) /\ a <= b

abs(x) == IF IsNaN(x) THEN NaN ELSE Abs(x)

---------------------------------------------------------------------------
(* The state of the program.                                              *)

VARIABLES
    model,      \* the muscles of the model: properties and computed members
    phase,      \* "constructed", "finalized", "simulating" or "error"
    s,          \* the SimTK::State of the muscle under study
    es,         \* the last run of estimateMuscleFiberState
    last        \* the last operation, its argument and what it returned

vars == <<model, phase, s, es, last>>

\* Property accessors of a muscle object (OpenSim_DECLARE_PROPERTY).
get_ignore_tendon_compliance(self) == self.ignore_tendon_compliance

get_ignore_activation_dynamics(self) == self.ignore_activation_dynamics

get_ignore_passive_fiber_force(self) == self.ignore_passive_fiber_force

get_active_force_width_scale(self) == self.active_force_width_scale

get_passive_fiber_strain_at_one_norm_force(self) ==
    self.passive_fiber_strain_at_one_norm_force

get_tendon_strain_at_one_norm_force(self) == self.tendon_strain_at_one_norm_force

get_tendon_compliance_dynamics_mode(self) == self.tendon_compliance_dynamics_mode

get_activation_time_constant(self) == self.activation_time_constant

get_deactivation_time_constant(self) == self.deactivation_time_constant

get_fiber_damping(self) == self.fiber_damping

get_max_isometric_force(self) == self.max_isometric_force

get_optimal_fiber_length(self) == self.optimal_fiber_length

get_tendon_slack_length(self) == self.tendon_slack_length

get_pennation_angle_at_optimal(self) == self.pennation_angle_at_optimal

get_default_activation(self) == self.default_activation

get_default_normalized_tendon_force(self) == self.default_normalized_tendon_force

---------------------------------------------------------------------------
(* Curve parameters (De Groote et al. 2016, supplement), in 1/Scale.      *)

b11 == 8151
b21 == 10550
b31 == 1624
b41 == 633
b12 == 4330
b22 == 7168
b32 == -299
b42 == 2004
b13 == 1000
b23 == 10000
b33 == 3536
b43 == 0

kPE == 40000

c1 == 2000
c2 == 10000
c3 == 2000

d1 == -3211
d2 == -81490
d3 == -3740
d4 == 8825

m_minNormTendonForce == 0
m_maxNormTendonForce == 50000

m_minNormFiberLength == 2000
m_maxNormFiberLength == 18000

---------------------------------------------------------------------------
(* Calculation methods: the curves, their derivatives and the stiffnesses. *)

calcGaussianLikeCurve(x, b1, b2, b3, b4) ==
    Mul(b1, exp(Div(Mul(-(Scale \div 2), square(Sub(x, b2))),
                    square(Add(b3, Mul(b4, x))))))

\* The division by cube(b3 + b4 * x) is made as three divisions by
\* b3 + b4 * x: the cube of a small number is below the fixed-point
\* resolution.
calcGaussianLikeCurveDerivative(x, b1, b2, b3, b4) ==
    LET u == Add(b3, Mul(b4, x))
        num == Mul(Mul(Mul(b1, exp(Div(Neg(square(Sub(b2, x))),
                                       Mul(2 * Scale, square(u))))),
                       Sub(b2, x)),
                   Add(b3, Mul(b2, b4)))
    IN  Div(Div(Div(num, u), u), u)

\* The curve scaled about the origin: the argument is not shifted to the
\* peak and back.
calcActiveForceLengthMultiplier_Unshifted(self, normFiberLength) ==
    LET scale == get_active_force_width_scale(self)
        x == Div(normFiberLength, scale)
    IN  Add(Add(calcGaussianLikeCurve(x, b11, b21, b31, b41),
                calcGaussianLikeCurve(x, b12, b22, b32, b42)),
            calcGaussianLikeCurve(x, b13, b23, b33, b43))

calcActiveForceLengthMultiplier(self, normFiberLength) ==
    LET scale == get_active_force_width_scale(self)
        x == Add(Div(Sub(normFiberLength, Scale), scale), Scale)
    IN  Add(Add(calcGaussianLikeCurve(x, b11, b21, b31, b41),
                calcGaussianLikeCurve(x, b12, b22, b32, b42)),
            calcGaussianLikeCurve(x, b13, b23, b33, b43))

calcActiveForceLengthMultiplierDerivative(self, normFiberLength) ==
    LET scale == get_active_force_width_scale(self)
        x == Add(Div(Sub(normFiberLength, Scale), scale), Scale)
    IN  Mul(Div(Scale, scale),
            Add(Add(calcGaussianLikeCurveDerivative(x, b11, b21, b31, b41),
                    calcGaussianLikeCurveDerivative(x, b12, b22, b32, b42)),
                calcGaussianLikeCurveDerivative(x, b13, b23, b33, b43)))

calcForceVelocityMultiplier(normFiberVelocity) ==
    LET tempV == Add(Mul(d2, normFiberVelocity), d3)
        tempLogArg == Add(tempV, sqrt(Add(square(tempV), Scale)))
    IN  Add(Mul(d1, log(tempLogArg)), d4)

\* The inverse without the offset d3 of the argument of the curve.
calcForceVelocityInverseCurve_Unshifted(forceVelocityMult) ==
    Div(sinh(Mul(Div(Scale, d1), Sub(forceVelocityMult, d4))), d2)

calcForceVelocityInverseCurve(forceVelocityMult) ==
    Div(Sub(sinh(Mul(Div(Scale, d1), Sub(forceVelocityMult, d4))), d3), d2)

\* The curve of the supplementary materials, which is zero at the optimal
\* fiber length.
calcPassiveForceMultiplier_ZeroAtOptimal(self, normFiberLength) ==
    IF get_ignore_passive_fiber_force(self) THEN 0
    ELSE LET e0 == get_passive_fiber_strain_at_one_norm_force(self)
         IN  Div(Sub(exp(Div(Mul(kPE, Sub(normFiberLength, Scale)), e0)), Scale),
                 Sub(exp(kPE), Scale))

calcPassiveForceMultiplier(self, normFiberLength) ==
    IF get_ignore_passive_fiber_force(self) THEN 0
    ELSE LET e0 == get_passive_fiber_strain_at_one_norm_force(self)
             offset == exp(Div(Mul(kPE, Sub(m_minNormFiberLength, Scale)), e0))
             denom == Sub(exp(kPE), offset)
         IN  Div(Sub(exp(Div(Mul(kPE, Sub(normFiberLength, Scale)), e0)), offset),
                 denom)

calcPassiveForceMultiplierDerivative(self, normFiberLength) ==
    IF get_ignore_passive_fiber_force(self) THEN 0
    ELSE LET e0 == get_passive_fiber_strain_at_one_norm_force(self)
             offset == exp(Div(Mul(kPE, Sub(m_minNormFiberLength, Scale)), e0))
         IN  Div(Mul(kPE, exp(Div(Mul(kPE, Sub(normFiberLength, Scale)), e0))),
                 Mul(e0, Sub(exp(kPE), offset)))

calcPassiveForceMultiplierIntegral(self, normFiberLength) ==
    IF get_ignore_passive_fiber_force(self) THEN 0
    ELSE LET e0 == get_passive_fiber_strain_at_one_norm_force(self)
             temp1 == exp(Div(Mul(kPE, m_minNormFiberLength), e0))
             denom == Sub(exp(Mul(kPE, Add(Scale, Div(Scale, e0)))), temp1)
             temp2 == Mul(Div(kPE, e0), normFiberLength)
         IN  Div(Sub(Mul(Div(e0, kPE), exp(temp2)), Mul(normFiberLength, temp1)),
                 denom)

calcTendonForceMultiplier(self, normTendonLength) ==
    Sub(Mul(c1, exp(Mul(self.m_kT, Sub(normTendonLength, c2)))), c3)

calcTendonForceMultiplierDerivative(self, normTendonLength) ==
    Mul(Mul(c1, self.m_kT), exp(Mul(self.m_kT, Sub(normTendonLength, c2))))

\* The inverse with its argument kept above the asymptote -c3.
calcTendonForceLengthInverseCurve_Clamped(self, normTendonForce) ==
    LET clamped == IF Le(normTendonForce, -c3) THEN -c3 + 1 ELSE normTendonForce
    IN  Add(Div(log(Mul(Div(Scale, c1), Add(clamped, c3))), self.m_kT), c2)

calcTendonForceLengthInverseCurve(self, normTendonForce) ==
    Add(Div(log(Mul(Div(Scale, c1), Add(normTendonForce, c3))), self.m_kT), c2)

\* calcFiberForce with the damping force left out of the total.
calcFiberForce_UndampedTotal(self, activation, activeForceLengthMultiplier, forceVelocityMultiplier, normPassiveFiberForce, normFiberVelocity) ==
    LET maxIsometricForce == get_max_isometric_force(self)
        activeFiberForce ==
            Mul(maxIsometricForce,
                Mul(Mul(activation, activeForceLengthMultiplier),
                    forceVelocityMultiplier))
        conPassiveFiberForce == Mul(maxIsometricForce, normPassiveFiberForce)
    IN  [activeFiberForce |-> activeFiberForce,
         conPassiveFiberForce |-> conPassiveFiberForce,
         nonConPassiveFiberForce |->
            Mul(Mul(maxIsometricForce, get_fiber_damping(self)),
                normFiberVelocity),
         totalFiberForce |-> Add(activeFiberForce, conPassiveFiberForce)]

\* The four results of calcFiberForce, as a record.
calcFiberForce(self, activation, activeForceLengthMultiplier, forceVelocityMultiplier, normPassiveFiberForce, normFiberVelocity) ==
    LET maxIsometricForce == get_max_isometric_force(self)
        activeFiberForce ==
            Mul(maxIsometricForce,
                Mul(Mul(activation, activeForceLengthMultiplier),
                    forceVelocityMultiplier))
        conPassiveFiberForce == Mul(maxIsometricForce, normPassiveFiberForce)
        nonConPassiveFiberForce ==
            Mul(Mul(maxIsometricForce, get_fiber_damping(self)), normFiberVelocity)
    IN  [activeFiberForce |-> activeFiberForce,
         conPassiveFiberForce |-> conPassiveFiberForce,
         nonConPassiveFiberForce |-> nonConPassiveFiberForce,
         totalFiberForce |->
            Add(Add(activeFiberForce, conPassiveFiberForce),
                nonConPassiveFiberForce)]

calcFiberStiffness(self, activation, normFiberLength, fiberVelocityMultiplier) ==
    LET partialNormFiberLengthPartialFiberLength ==
            Div(Scale, get_optimal_fiber_length(self))
        partialNormActiveForcePartialFiberLength ==
            Mul(partialNormFiberLengthPartialFiberLength,
                calcActiveForceLengthMultiplierDerivative(self, normFiberLength))
        partialNormPassiveForcePartialFiberLength ==
            Mul(partialNormFiberLengthPartialFiberLength,
                calcPassiveForceMultiplierDerivative(self, normFiberLength))
    IN  Mul(get_max_isometric_force(self),
            Add(Mul(Mul(activation, partialNormActiveForcePartialFiberLength),
                    fiberVelocityMultiplier),
                partialNormPassiveForcePartialFiberLength))

calcTendonStiffness(self, normTendonLength) ==
    IF get_ignore_tendon_compliance(self) THEN Infinity
    ELSE Mul(Div(get_max_isometric_force(self), get_tendon_slack_length(self)),
             calcTendonForceMultiplierDerivative(self, normTendonLength))

calcMuscleStiffness(self, tendonStiffness, fiberStiffnessAlongTendon) ==
    IF get_ignore_tendon_compliance(self) THEN fiberStiffnessAlongTendon
    ELSE Div(Mul(fiberStiffnessAlongTendon, tendonStiffness),
             Add(fiberStiffnessAlongTendon, tendonStiffness))

calcPartialPennationAnglePartialFiberLength(self, fiberLength) ==
    Div(Div(Neg(self.m_fiberWidth), square(fiberLength)),
        sqrt(Sub(Scale, square(Div(self.m_fiberWidth, fiberLength)))))

calcPartialFiberForceAlongTendonPartialFiberLength(fiberForce, fiberStiffness, sinPennationAngle, cosPennationAngle, partialPennationAnglePartialFiberLength) ==
    LET partialCosPennationAnglePartialFiberLength ==
            Mul(Neg(sinPennationAngle), partialPennationAnglePartialFiberLength)
    IN  Add(Mul(fiberStiffness, cosPennationAngle),
            Mul(fiberForce, partialCosPennationAnglePartialFiberLength))

calcPartialTendonLengthPartialFiberLength(fiberLength, sinPennationAngle, cosPennationAngle, partialPennationAnglePartialFiberLength) ==
    Sub(Mul(Mul(fiberLength, sinPennationAngle),
            partialPennationAnglePartialFiberLength),
        cosPennationAngle)

calcPartialTendonForcePartialFiberLength(self, tendonStiffness, fiberLength, sinPennationAngle, cosPennationAngle) ==
    LET partialPennationAnglePartialFiberLength ==
            calcPartialPennationAnglePartialFiberLength(self, fiberLength)
        partialTendonLengthPartialFiberLength ==
            calcPartialTendonLengthPartialFiberLength(fiberLength,
                sinPennationAngle, cosPennationAngle,
                partialPennationAnglePartialFiberLength)
    IN  Mul(tendonStiffness, partialTendonLengthPartialFiberLength)

\* The residual with its terms exchanged.
calcEquilibriumResidual_Exchanged(tendonForce, fiberForceAlongTendon) ==
    Sub(fiberForceAlongTendon, tendonForce)

calcEquilibriumResidual(tendonForce, fiberForceAlongTendon) ==
    Sub(tendonForce, fiberForceAlongTendon)

---------------------------------------------------------------------------
(* Finalization: the checks of the properties and the computed members.   *)

\* The property checks without the check of the mode.
PropertiesAreValid_AnyMode(self) ==
    /\ Gt(get_activation_time_constant(self), 0)
    /\ Gt(get_deactivation_time_constant(self), 0)
    /\ Gt(get_passive_fiber_strain_at_one_norm_force(self), 0)
    /\ Gt(get_tendon_strain_at_one_norm_force(self), 0)

\* The property checks of extendFinalizeFromProperties: the configuration
\* errors are a non-positive strain or time constant and an unsupported
\* tendon compliance dynamics mode.
PropertiesAreValid(self) ==
    /\ Gt(get_activation_time_constant(self), 0)
    /\ Gt(get_deactivation_time_constant(self), 0)
    /\ Gt(get_passive_fiber_strain_at_one_norm_force(self), 0)
    /\ Gt(get_tendon_strain_at_one_norm_force(self), 0)
    /\ get_tendon_compliance_dynamics_mode(self) \in {"explicit", "implicit"}

\* The members computed from the properties.  kT is such that the tendon
\* force multiplier is 1 at the strain tendon_strain_at_one_norm_force.
extendFinalizeFromProperties(self) ==
    [self EXCEPT
        !.m_fiberWidth =
            Mul(get_optimal_fiber_length(self),
                sin(get_pennation_angle_at_optimal(self))),
        !.m_kT =
            Div(log(Div(Add(Scale, c3), c1)),
                Sub(Add(Scale, get_tendon_strain_at_one_norm_force(self)), c2)),
        !.m_isTendonDynamicsExplicit =
            (get_tendon_compliance_dynamics_mode(self) = "explicit")]

---------------------------------------------------------------------------
(* estimateMuscleFiberState: the safeguarded Newton iteration on the      *)
(* fiber length that solves the muscle-tendon equilibrium.                *)

StatusFromEstimateMuscleFiberState ==
    {"Success_Converged", "Warning_FiberAtLowerBound",
     "Warning_FiberAtUpperBound", "Failure_MaxIterationsReached"}

\* The number of consecutive clamped iterations after which the iterate
\* counts as pinned at a bound.
PinnedIterations == 2

minFiberLength(self) == Mul(m_minNormFiberLength, get_optimal_fiber_length(self))

maxFiberLength(self) == Mul(m_maxNormFiberLength, get_optimal_fiber_length(self))

\* The iterate left where the step proposes it.
clampFiberLength_Unclamped(self, fiberLength) == fiberLength

\* Boundary clamping of the iterate; a NaN passes through the comparisons.
clampFiberLength(self, fiberLength) ==
    IF Lt(fiberLength, minFiberLength(self)) THEN minFiberLength(self)
    ELSE IF Gt(fiberLength, maxFiberLength(self)) THEN maxFiberLength(self)
    ELSE fiberLength

\* The residual of the equilibrium and its derivative with respect to the
\* fiber length, from the forces and stiffnesses of one iterate.
calcEstimateResidualInfo(self, fiberLength, sinPennationAngle, cosPennationAngle, totalFiberForce, fiberStiffness, normTendonForce, tendonStiffness) ==
    [residual |->
        calcEquilibriumResidual(
            Mul(get_max_isometric_force(self), normTendonForce),
            Mul(totalFiberForce, cosPennationAngle)),
     partialResidualPartialFiberLength |->
        Sub(calcPartialTendonForcePartialFiberLength(self, tendonStiffness,
                fiberLength, sinPennationAngle, cosPennationAngle),
            calcPartialFiberForceAlongTendonPartialFiberLength(
                totalFiberForce, fiberStiffness, sinPennationAngle,
                cosPennationAngle,
                calcPartialPennationAnglePartialFiberLength(self, fiberLength))),
     normTendonForce |-> normTendonForce]

\* The forces and stiffnesses of one iterate, from its lengths, at zero
\* fiber velocity.
calcEstimateForceInfo(self, activation, fiberLength, normFiberLength, sinPennationAngle, cosPennationAngle, normTendonLength, forceVelocityMultiplier) ==
    calcEstimateResidualInfo(self, fiberLength, sinPennationAngle,
        cosPennationAngle,
        calcFiberForce(self, activation,
            calcActiveForceLengthMultiplier(self, normFiberLength),
            forceVelocityMultiplier,
            calcPassiveForceMultiplier(self, normFiberLength),
            0).totalFiberForce,
        calcFiberStiffness(self, activation, normFiberLength,
            forceVelocityMultiplier),
        calcTendonForceMultiplier(self, normTendonLength),
        calcTendonStiffness(self, normTendonLength))

\* The tendon length left by a fiber length under a pennation angle,
\* normalized.
calcEstimateNormTendonLength(self, muscleTendonLength, fiberLength, cosPennationAngle) ==
    Div(Sub(muscleTendonLength, Mul(fiberLength, cosPennationAngle)),
        get_tendon_slack_length(self))

\* The lengths of one iterate under the sine and cosine of its pennation
\* angle.
calcEstimateLengthInfo(self, activation, muscleTendonLength, fiberLength, sinPennationAngle, cosPennationAngle) ==
    calcEstimateForceInfo(self, activation, fiberLength,
        Div(fiberLength, get_optimal_fiber_length(self)),
        sinPennationAngle, cosPennationAngle,
        calcEstimateNormTendonLength(self, muscleTendonLength, fiberLength,
            cosPennationAngle),
        calcForceVelocityMultiplier(0))

calcEstimatePennationInfo(self, activation, muscleTendonLength, fiberLength, sinPennationAngle) ==
    calcEstimateLengthInfo(self, activation, muscleTendonLength, fiberLength,
        sinPennationAngle, sqrt(Sub(Scale, square(sinPennationAngle))))

\* The length and dynamics info of one iterate, at zero fiber velocity:
\* the equilibrium residual, its derivative with respect to the fiber
\* length, and the normalized tendon force.
calcEstimateInfo(self, activation, muscleTendonLength, fiberLength) ==
    calcEstimatePennationInfo(self, activation, muscleTendonLength, fiberLength,
        Div(self.m_fiberWidth, fiberLength))

\* The first guess of the fiber length: the tendon at its slack length and
\* the fiber taking the rest of the muscle-tendon length.
EstimateGuess(self, fiberLengthAlongTendon) ==
    IF Gt(fiberLengthAlongTendon, 0)
    THEN sqrt(Add(square(fiberLengthAlongTendon), square(self.m_fiberWidth)))
    ELSE minFiberLength(self)

\* An iterate: the inputs, the count of iterations, the fiber length, its
\* info, and the counts of consecutive iterations clamped at each bound.
EstimateAt(self, in, iter, fiberLength, atLowerBound, atUpperBound) ==
    [in |-> in, iter |-> iter, fiberLength |-> fiberLength,
     info |-> calcEstimateInfo(self, in.activation, in.muscleTendonLength,
                  fiberLength),
     atLowerBound |-> atLowerBound, atUpperBound |-> atUpperBound]

\* The iterate before the first iteration: the first guess, clamped.
EstimateStart(self, in) ==
    EstimateAt(self, in, 0,
        clampFiberLength(self,
            EstimateGuess(self,
                Sub(in.muscleTendonLength, get_tendon_slack_length(self)))),
        0, 0)

\* The loop condition without the cap on the iterations.
EstimateContinue_Uncapped(r) ==
    /\ Gt(abs(r.info.residual), r.in.tolerance)
    /\ r.atLowerBound < PinnedIterations
    /\ r.atUpperBound < PinnedIterations

\* The loop condition.
EstimateContinue(r) ==
    /\ Gt(abs(r.info.residual), r.in.tolerance)
    /\ r.iter < r.in.maxIterations
    /\ r.atLowerBound < PinnedIterations
    /\ r.atUpperBound < PinnedIterations

\* The iterate after a proposed fiber length when the clamped iterations
\* are not counted.
EstimateMove_Uncounted(self, r, proposed) ==
    EstimateAt(self, r.in, r.iter + 1, clampFiberLength(self, proposed), 0, 0)

\* The iterate after a proposed fiber length: the clamping, the new info.
EstimateMove(self, r, proposed) ==
    EstimateAt(self, r.in, r.iter + 1, clampFiberLength(self, proposed),
        IF Lt(proposed, minFiberLength(self)) THEN r.atLowerBound + 1 ELSE 0,
        IF Gt(proposed, maxFiberLength(self)) THEN r.atUpperBound + 1 ELSE 0)

\* The Newton step taken in the direction opposite to the correction.
EstimateNewton_Reversed(r) ==
    Add(r.fiberLength,
        Div(r.info.residual, r.info.partialResidualPartialFiberLength))

\* The fiber length the Newton step proposes from an iterate.
EstimateNewton(r) ==
    Sub(r.fiberLength,
        Div(r.info.residual, r.info.partialResidualPartialFiberLength))

\* One iteration: the Newton step from the iterate.
EstimateStep(self, r) == EstimateMove(self, r, EstimateNewton(r))

\* The status and the values returned when the loop has ended.
EstimateResult(r) ==
    [status |->
        IF Le(abs(r.info.residual), r.in.tolerance) THEN "Success_Converged"
        ELSE IF r.atLowerBound >= PinnedIterations
             THEN "Warning_FiberAtLowerBound"
        ELSE IF r.atUpperBound >= PinnedIterations
             THEN "Warning_FiberAtUpperBound"
        ELSE "Failure_MaxIterationsReached",
     values |->
        [iterations |-> r.iter,
         solution_error |-> abs(r.info.residual),
         fiber_length |-> r.fiberLength,
         fiber_velocity |-> 0,
         normalized_tendon_force |-> r.info.normTendonForce]]

RECURSIVE EstimateLoop(_, _)
EstimateLoop(self, r) ==
    IF EstimateContinue(r) THEN EstimateLoop(self, EstimateStep(self, r)) ELSE r

estimateMuscleFiberState(self, activation, muscleTendonLength, muscleTendonVelocity, normTendonForceDerivative, tolerance, maxIterations) ==
    EstimateResult(EstimateLoop(self,
        EstimateStart(self,
            [activation |-> activation,
             muscleTendonLength |-> muscleTendonLength,
             muscleTendonVelocity |-> muscleTendonVelocity,
             normTendonForceDerivative |-> normTendonForceDerivative,
             tolerance |-> tolerance,
             maxIterations |-> maxIterations])))

---------------------------------------------------------------------------
(* The accessors of the muscle on a state.                                *)

STATE_ACTIVATION_NAME == "activation"

STATE_NORMALIZED_TENDON_FORCE_NAME == "normalized_tendon_force"

DERIVATIVE_NORMALIZED_TENDON_FORCE_NAME == "implicitderiv_normalized_tendon_force"

\* The state before initSystem(): no SimTK::State exists.
NoState == [exists |-> FALSE]

\* Component: the value of a state variable, of the derivative of a state
\* variable, of a discrete variable; ScalarActuator: the control.
getStateVariableValue(st, name) == st.stateVariables[name]

getStateVariableDerivativeValue(st, name) == st.stateVariableDerivatives[name]

getDiscreteVariableValue(st, name) == st.discreteVariables[name]

getControl(st) == st.controls

getActivation(self, st) ==
    IF get_ignore_activation_dynamics(self)
    THEN getControl(st)
    ELSE getStateVariableValue(st, STATE_ACTIVATION_NAME)

\* setActivation writing the state variable whatever the configuration.
setActivation_StateOnly(self, st, activation) ==
    [st EXCEPT !.stateVariables[STATE_ACTIVATION_NAME] = activation]

setActivation(self, st, activation) ==
    IF get_ignore_activation_dynamics(self)
    THEN [st EXCEPT !.controls = activation]
    ELSE [st EXCEPT !.stateVariables[STATE_ACTIVATION_NAME] = activation]

\* The mode query answering from the mode alone.
getImplicitEnabledNormalizedTendonForce_ModeOnly(self, st) ==
    ~self.m_isTendonDynamicsExplicit

getImplicitEnabledNormalizedTendonForce(self, st) ==
    ~get_ignore_tendon_compliance(self) /\ ~self.m_isTendonDynamicsExplicit

\* The derivative as the comment above the function words it: zero with a
\* compliant tendon.
getNormalizedTendonForceDerivative_ZeroIfCompliant(self, st) ==
    IF ~get_ignore_tendon_compliance(self) THEN 0
    ELSE IF self.m_isTendonDynamicsExplicit
         THEN getStateVariableDerivativeValue(st,
                  STATE_NORMALIZED_TENDON_FORCE_NAME)
         ELSE getDiscreteVariableValue(st,
                  DERIVATIVE_NORMALIZED_TENDON_FORCE_NAME)

\* The derivative read from the slot of the other mode.
getNormalizedTendonForceDerivative_Swapped(self, st) ==
    IF get_ignore_tendon_compliance(self) THEN 0
    ELSE IF self.m_isTendonDynamicsExplicit
         THEN getDiscreteVariableValue(st,
                  DERIVATIVE_NORMALIZED_TENDON_FORCE_NAME)
         ELSE getStateVariableDerivativeValue(st,
                  STATE_NORMALIZED_TENDON_FORCE_NAME)

\* The derivative read from the state whatever the tendon.
getNormalizedTendonForceDerivative_Compliant(self, st) ==
    IF self.m_isTendonDynamicsExplicit
    THEN getStateVariableDerivativeValue(st, STATE_NORMALIZED_TENDON_FORCE_NAME)
    ELSE getDiscreteVariableValue(st, DERIVATIVE_NORMALIZED_TENDON_FORCE_NAME)

getNormalizedTendonForceDerivative(self, st) ==
    IF get_ignore_tendon_compliance(self) THEN 0
    ELSE IF self.m_isTendonDynamicsExplicit
         THEN getStateVariableDerivativeValue(st,
                  STATE_NORMALIZED_TENDON_FORCE_NAME)
         ELSE getDiscreteVariableValue(st,
                  DERIVATIVE_NORMALIZED_TENDON_FORCE_NAME)

getMinNormalizedTendonForce == m_minNormTendonForce

getMaxNormalizedTendonForce == m_maxNormTendonForce

\* The bounds with the upper bound first.
getBoundsNormalizedTendonForce_UpperFirst(self, st) ==
    <<getMaxNormalizedTendonForce, getMinNormalizedTendonForce>>

getBoundsNormalizedTendonForce(self, st) ==
    <<getMinNormalizedTendonForce, getMaxNormalizedTendonForce>>

\* The setter leaving the caches as they are.
setNormalizedTendonForce_KeepingCaches(self, st, normTendonForce) ==
    IF ~get_ignore_tendon_compliance(self)
    THEN [st EXCEPT
            !.stateVariables[STATE_NORMALIZED_TENDON_FORCE_NAME] =
                normTendonForce]
    ELSE st

\* The setter marking the caches invalid whatever the tendon.
setNormalizedTendonForce_AlwaysInvalidating(self, st, normTendonForce) ==
    [st EXCEPT
        !.stateVariables[STATE_NORMALIZED_TENDON_FORCE_NAME] =
            IF ~get_ignore_tendon_compliance(self)
            THEN normTendonForce
            ELSE st.stateVariables[STATE_NORMALIZED_TENDON_FORCE_NAME],
        !.cacheValid =
            [lengthInfo |-> FALSE, velInfo |-> FALSE, dynamicsInfo |-> FALSE]]

setNormalizedTendonForce(self, st, normTendonForce) ==
    IF ~get_ignore_tendon_compliance(self)
    THEN [st EXCEPT
            !.stateVariables[STATE_NORMALIZED_TENDON_FORCE_NAME] =
                normTendonForce,
            !.cacheValid =
                [lengthInfo |-> FALSE, velInfo |-> FALSE,
                 dynamicsInfo |-> FALSE]]
    ELSE st

\* The configuration the accessors and the dynamics dispatch on.
TendonConfiguration(self, st) ==
    IF get_ignore_tendon_compliance(self) THEN "RigidTendon"
    ELSE IF getImplicitEnabledNormalizedTendonForce(self, st)
         THEN "ImplicitCompliantTendon"
         ELSE "ExplicitCompliantTendon"

ActivationConfiguration(self) ==
    IF get_ignore_activation_dynamics(self)
    THEN "WithoutActivationDynamics" ELSE "WithActivationDynamics"

---------------------------------------------------------------------------
(* computeStateVariableDerivatives: the derivatives of the state          *)
(* variables the configuration has.                                       *)

\* tanh(x) = 1 - 2 / (e^(2x) + 1).
tanh(x) == Sub(Scale, Div(2 * Scale * Scale, Add(exp(2 * x), Scale)))

\* The steepness of the smooth switch between activation and deactivation.
tanhSteepness == 10 * Scale

\* The maximum contraction velocity, in optimal fiber lengths per second.
get_max_contraction_velocity(self) == 10 * Scale

\* The first-order lag of the activation towards the excitation, with the
\* two time constants blended smoothly.
calcActivationDerivativeFromSwitch(self, activation, excitation, f, z) ==
    Mul(Add(Div(Add(f, Scale \div 2),
                Mul(get_activation_time_constant(self), z)),
            Div(Mul(Sub(Scale \div 2, f), z),
                get_deactivation_time_constant(self))),
        Sub(excitation, activation))

calcActivationDerivative(self, activation, excitation) ==
    calcActivationDerivativeFromSwitch(self, activation, excitation,
        tanh(Mul(tanhSteepness, Sub(excitation, activation))) \div 2,
        Add(Scale \div 2, Mul((3 * Scale) \div 2, activation)))

\* The normalized fiber velocity at which the fiber force along the tendon
\* balances the tendon force of the state.
calcNormFiberVelocityFromForce(self, activation, normTendonForce, normFiberLength, cosPennationAngle) ==
    calcForceVelocityInverseCurve(
        Div(Sub(Div(normTendonForce, cosPennationAngle),
                calcPassiveForceMultiplier(self, normFiberLength)),
            Mul(activation,
                calcActiveForceLengthMultiplier(self, normFiberLength))))

\* The derivative of the normalized tendon force: the normalized tendon
\* velocity times the slope of the tendon force-length curve.
calcNormTendonForceDerivativeFromVelocity(self, muscleTendonVelocity, normTendonLength, cosPennationAngle, normFiberVelocity) ==
    Mul(Div(Sub(muscleTendonVelocity,
                Div(Mul(Mul(get_max_contraction_velocity(self),
                            get_optimal_fiber_length(self)),
                        normFiberVelocity),
                    cosPennationAngle)),
            get_tendon_slack_length(self)),
        calcTendonForceMultiplierDerivative(self, normTendonLength))

calcNormTendonForceDerivativeFromFiber(self, activation, normTendonForce, normTendonLength, fiberLengthAlongTendon, fiberLength) ==
    calcNormTendonForceDerivativeFromVelocity(self, 0, normTendonLength,
        Div(fiberLengthAlongTendon, fiberLength),
        calcNormFiberVelocityFromForce(self, activation, normTendonForce,
            Div(fiberLength, get_optimal_fiber_length(self)),
            Div(fiberLengthAlongTendon, fiberLength)))

calcNormTendonForceDerivativeFromTendon(self, activation, normTendonForce, normTendonLength, fiberLengthAlongTendon) ==
    calcNormTendonForceDerivativeFromFiber(self, activation, normTendonForce,
        normTendonLength, fiberLengthAlongTendon,
        sqrt(Add(square(fiberLengthAlongTendon), square(self.m_fiberWidth))))

calcNormTendonForceDerivativeFromLength(self, activation, muscleTendonLength, normTendonForce, normTendonLength) ==
    calcNormTendonForceDerivativeFromTendon(self, activation, normTendonForce,
        normTendonLength,
        Sub(muscleTendonLength,
            Mul(get_tendon_slack_length(self), normTendonLength)))

\* The explicit tendon compliance dynamics: the ordinary differential
\* equation of the normalized tendon force, from the state and the fiber
\* kinematics.
calcNormTendonForceDerivative(self, st) ==
    calcNormTendonForceDerivativeFromLength(self, getActivation(self, st),
        st.muscleTendonLength,
        getStateVariableValue(st, STATE_NORMALIZED_TENDON_FORCE_NAME),
        calcTendonForceLengthInverseCurve(self,
            getStateVariableValue(st, STATE_NORMALIZED_TENDON_FORCE_NAME)))

\* Component::setStateVariableDerivativeValue.
setStateVariableDerivativeValue(st, name, value) ==
    [st EXCEPT !.stateVariableDerivatives[name] = value]

\* The implicit tendon compliance dynamics put the derivative the solver
\* supplied in place of the one of the differential equation.
computeNormTendonForceDerivative_AlwaysExplicit(self, st) ==
    calcNormTendonForceDerivative(self, st)

computeNormTendonForceDerivative(self, st) ==
    IF self.m_isTendonDynamicsExplicit
    THEN calcNormTendonForceDerivative(self, st)
    ELSE getDiscreteVariableValue(st, DERIVATIVE_NORMALIZED_TENDON_FORCE_NAME)

computeActivationDerivative(self, st) ==
    IF ~get_ignore_activation_dynamics(self)
    THEN setStateVariableDerivativeValue(st, STATE_ACTIVATION_NAME,
             calcActivationDerivative(self, getActivation(self, st),
                 getControl(st)))
    ELSE st

computeTendonDerivative(self, st) ==
    IF ~get_ignore_tendon_compliance(self)
    THEN setStateVariableDerivativeValue(st,
             STATE_NORMALIZED_TENDON_FORCE_NAME,
             computeNormTendonForceDerivative(self, st))
    ELSE st

computeStateVariableDerivatives(self, st) ==
    computeTendonDerivative(self, computeActivationDerivative(self, st))

---------------------------------------------------------------------------
(* The muscle infos of a state, at zero muscle-tendon velocity, and the    *)
(* accessors that read them through the cache of the state.                *)

\* A cache entry that was never computed.
NoInfo == [computed |-> FALSE]

\* Length info: the tendon is at its slack length when it is rigid and at
\* the length of the normalized tendon force of the state when it is
\* compliant; the fiber takes the rest under the fixed-width pennation.
calcMuscleLengthInfoFromFiber(self, normTendonLength, fiberLengthAlongTendon, fiberLength) ==
    [computed |-> TRUE,
     normTendonLength |-> normTendonLength,
     fiberLength |-> fiberLength,
     normFiberLength |-> Div(fiberLength, get_optimal_fiber_length(self)),
     cosPennationAngle |-> Div(fiberLengthAlongTendon, fiberLength)]

calcMuscleLengthInfoFromTendon(self, normTendonLength, fiberLengthAlongTendon) ==
    calcMuscleLengthInfoFromFiber(self, normTendonLength, fiberLengthAlongTendon,
        sqrt(Add(square(fiberLengthAlongTendon), square(self.m_fiberWidth))))

calcMuscleLengthInfoFromLength(self, muscleTendonLength, normTendonLength) ==
    calcMuscleLengthInfoFromTendon(self, normTendonLength,
        Sub(muscleTendonLength,
            Mul(get_tendon_slack_length(self), normTendonLength)))

calcMuscleLengthInfo(self, st) ==
    calcMuscleLengthInfoFromLength(self, st.muscleTendonLength,
        IF get_ignore_tendon_compliance(self) THEN Scale
        ELSE calcTendonForceLengthInverseCurve(self,
                 getStateVariableValue(st, STATE_NORMALIZED_TENDON_FORCE_NAME)))

\* Velocity info: the normalized fiber velocity.  The fiber of a rigid
\* tendon moves with the muscle-tendon unit; with the explicit tendon
\* dynamics the velocity is the one at which the fiber force balances the
\* tendon force of the state; with the implicit ones it follows from the
\* derivative of the normalized tendon force the solver supplied.
calcFiberVelocityInfo(self, st, mli) ==
    [computed |-> TRUE,
     activation |-> getActivation(self, st),
     normFiberVelocity |->
        IF get_ignore_tendon_compliance(self) THEN 0
        ELSE IF self.m_isTendonDynamicsExplicit
        THEN calcNormFiberVelocityFromForce(self, getActivation(self, st),
                 getStateVariableValue(st, STATE_NORMALIZED_TENDON_FORCE_NAME),
                 mli.normFiberLength, mli.cosPennationAngle)
        ELSE Div(Mul(Neg(Mul(get_tendon_slack_length(self),
                             Div(getDiscreteVariableValue(st,
                                     DERIVATIVE_NORMALIZED_TENDON_FORCE_NAME),
                                 calcTendonForceMultiplierDerivative(self,
                                     mli.normTendonLength)))),
                     mli.cosPennationAngle),
                 Mul(get_max_contraction_velocity(self),
                     get_optimal_fiber_length(self)))]

\* Dynamics info: the total fiber force, the force along the tendon, and
\* the tendon force, which is the fiber force along the tendon when the
\* tendon is rigid and the force of the state when it is compliant.
calcMuscleDynamicsInfoFromForce(self, st, mli, fiberForce) ==
    [computed |-> TRUE,
     activation |-> getActivation(self, st),
     fiberForce |-> fiberForce,
     fiberForceAlongTendon |-> Mul(fiberForce, mli.cosPennationAngle),
     tendonForce |->
        IF get_ignore_tendon_compliance(self)
        THEN Mul(fiberForce, mli.cosPennationAngle)
        ELSE Mul(get_max_isometric_force(self),
                 getStateVariableValue(st, STATE_NORMALIZED_TENDON_FORCE_NAME))]

calcMuscleDynamicsInfo(self, st, mli, fvi) ==
    calcMuscleDynamicsInfoFromForce(self, st, mli,
        calcFiberForce(self, getActivation(self, st),
            calcActiveForceLengthMultiplier(self, mli.normFiberLength),
            calcForceVelocityMultiplier(fvi.normFiberVelocity),
            calcPassiveForceMultiplier(self, mli.normFiberLength),
            fvi.normFiberVelocity).totalFiberForce)

\* Muscle::getMuscleLengthInfo, getFiberVelocityInfo, getMuscleDynamicsInfo:
\* a valid cache entry is returned as it is; an invalid one is computed
\* from the state, stored and marked valid.  Each gives the state after the
\* call, whose entry is the info returned.
getMuscleLengthInfo(self, st) ==
    IF st.cacheValid.lengthInfo THEN st
    ELSE [st EXCEPT !.mli = calcMuscleLengthInfo(self, st),
                    !.cacheValid.lengthInfo = TRUE]

\* The velocity info stored in a state whose length info is at hand.
updFiberVelocityInfo(self, st) ==
    [st EXCEPT !.fvi = calcFiberVelocityInfo(self, st, st.mli),
               !.cacheValid.velInfo = TRUE]

getFiberVelocityInfo(self, st) ==
    IF st.cacheValid.velInfo THEN st
    ELSE updFiberVelocityInfo(self, getMuscleLengthInfo(self, st))

\* The dynamics info stored in a state whose length and velocity infos are
\* at hand.
updMuscleDynamicsInfo(self, st) ==
    [st EXCEPT !.mdi = calcMuscleDynamicsInfo(self, st, st.mli, st.fvi),
               !.cacheValid.dynamicsInfo = TRUE]

getMuscleDynamicsInfo(self, st) ==
    IF st.cacheValid.dynamicsInfo THEN st
    ELSE updMuscleDynamicsInfo(self,
             getFiberVelocityInfo(self, getMuscleLengthInfo(self, st)))

getTendonForce(self, st) == getMuscleDynamicsInfo(self, st).mdi.tendonForce

getFiberForce(self, st) == getMuscleDynamicsInfo(self, st).mdi.fiberForce

\* getNormalizedTendonForce reading the state variable whatever the tendon.
getNormalizedTendonForce_StateOnly(self, st) ==
    getStateVariableValue(st, STATE_NORMALIZED_TENDON_FORCE_NAME)

getNormalizedTendonForce(self, st) ==
    IF get_ignore_tendon_compliance(self)
    THEN Div(getTendonForce(self, st), get_max_isometric_force(self))
    ELSE getStateVariableValue(st, STATE_NORMALIZED_TENDON_FORCE_NAME)

\* The residual of a dynamics info.
calcEquilibriumResidualOf(mdi) ==
    calcEquilibriumResidual(mdi.tendonForce, mdi.fiberForceAlongTendon)

getEquilibriumResidual(self, st) ==
    calcEquilibriumResidualOf(getMuscleDynamicsInfo(self, st).mdi)

---------------------------------------------------------------------------
(* The bounds of the model and the values the inputs are drawn from.      *)

NumMuscles == 2

MaxIterations == 16

Muscles == 1 .. NumMuscles

MuscleClasses == {"DeGrooteFregly2016Muscle", "Millard2012EquilibriumMuscle"}

ModeValues == {"explicit", "implicit", "semi-implicit"}

ActivationValues == {0, 10000}

NormTendonForceValues == {0, 60000}

ScaleFactorValues == {15000}

DerivativeValues == {0, 25000}

InitialLengths == {30000, 50000}

EquilibriumTolerances == {100}

EquilibriumMaxIterations == {1, MaxIterations}

\* The muscle under study is muscle 1, a DeGrooteFregly2016Muscle.
this == model[1]

\* A DeGrooteFregly2016Muscle after constructProperties() and the setting of
\* the properties given; the members hold their in-class initializers.
NewDeGrooteFregly2016Muscle(itc, iad, mode, tendonStrain, passiveStrain, tauAct, tauDeact, pennation) ==
    [concreteClassName |-> "DeGrooteFregly2016Muscle",
     ignore_tendon_compliance |-> itc,
     ignore_activation_dynamics |-> iad,
     tendon_compliance_dynamics_mode |-> mode,
     tendon_strain_at_one_norm_force |-> tendonStrain,
     passive_fiber_strain_at_one_norm_force |-> passiveStrain,
     activation_time_constant |-> tauAct,
     deactivation_time_constant |-> tauDeact,
     default_activation |-> 5000,
     default_normalized_tendon_force |-> 5000,
     active_force_width_scale |-> 10000,
     fiber_damping |-> 0,
     ignore_passive_fiber_force |-> FALSE,
     max_isometric_force |-> 10000,
     optimal_fiber_length |-> 10000,
     tendon_slack_length |-> 40000,
     pennation_angle_at_optimal |-> pennation,
     m_fiberWidth |-> NaN,
     m_kT |-> NaN,
     m_isTendonDynamicsExplicit |-> TRUE]

\* A muscle of another class: only the properties of the Muscle base class.
NewOtherMuscle ==
    [concreteClassName |-> "Millard2012EquilibriumMuscle",
     ignore_tendon_compliance |-> FALSE,
     ignore_activation_dynamics |-> FALSE]

PlainDeGrooteFregly2016Muscle ==
    NewDeGrooteFregly2016Muscle(FALSE, FALSE, "explicit", 490, 6000, 150, 600, 0)

IsDeGrooteFregly2016Muscle(m) == m.concreteClassName = "DeGrooteFregly2016Muscle"

Returned(op, arg, ret) == [op |-> op, arg |-> arg, ret |-> ret]

EstimateIdle == [pc |-> "idle"]

---------------------------------------------------------------------------
(* The life of a model: construction, finalization, initSystem and the    *)
(* operations on the state.                                               *)

Init ==
    /\ \E itc \in BOOLEAN, iad \in BOOLEAN, mode \in ModeValues,
          tendonStrain \in {0, 490}, passiveStrain \in {-6000, 6000},
          tauAct \in {0, 150}, tauDeact \in {-600, 600},
          others \in [Muscles \ {1} -> {NewOtherMuscle, PlainDeGrooteFregly2016Muscle}] :
          model = [i \in Muscles |->
                      IF i = 1
                      THEN NewDeGrooteFregly2016Muscle(itc, iad, mode,
                               tendonStrain, passiveStrain, tauAct, tauDeact,
                               1000)
                      ELSE others[i]]
    /\ phase = "constructed"
    /\ s = NoState
    /\ es = EstimateIdle
    /\ last = Returned("construct", 0, "ok")

\* Model::finalizeFromProperties(): every DeGrooteFregly2016Muscle checks its
\* properties and computes its members; an invalid property throws.
FinalizeSucceeds(mdl) ==
    \A i \in Muscles :
        IsDeGrooteFregly2016Muscle(mdl[i]) => PropertiesAreValid(mdl[i])

FinalizedModel(mdl) ==
    [i \in Muscles |->
        IF IsDeGrooteFregly2016Muscle(mdl[i])
        THEN extendFinalizeFromProperties(mdl[i])
        ELSE mdl[i]]

FinalizeFromProperties ==
    /\ phase \in {"constructed", "finalized"}
    /\ IF FinalizeSucceeds(model)
       THEN /\ model' = FinalizedModel(model)
            /\ phase' = "finalized"
            /\ last' = Returned("finalizeFromProperties", 0, "ok")
       ELSE /\ model' = model
            /\ phase' = "error"
            /\ last' = Returned("finalizeFromProperties", 0, "InvalidPropertyValue")
    /\ UNCHANGED <<s, es>>

\* extendAddToSystem() and extendInitStateFromProperties(): the state
\* variables the configuration needs, at their default values.  A variable
\* that is not allocated reads as NaN.
InitialState(self, length) ==
    [exists |-> TRUE,
     stateVariables |->
        [activation |->
            IF get_ignore_activation_dynamics(self) THEN NaN
            ELSE get_default_activation(self),
         normalized_tendon_force |->
            IF get_ignore_tendon_compliance(self) THEN NaN
            ELSE get_default_normalized_tendon_force(self)],
     stateVariableDerivatives |->
        [activation |-> NaN, normalized_tendon_force |-> NaN],
     discreteVariables |->
        [implicitderiv_normalized_tendon_force |->
            IF ~get_ignore_tendon_compliance(self)
               /\ ~self.m_isTendonDynamicsExplicit
            THEN 0 ELSE NaN],
     controls |-> 0,
     muscleTendonLength |-> length,
     cacheValid |->
        [lengthInfo |-> FALSE, velInfo |-> FALSE, dynamicsInfo |-> FALSE]]

\* Model::initSystem(): finalizes the model, then builds the system and the
\* default state.  No state is created when the finalization throws.
InitSystem ==
    /\ phase \in {"constructed", "finalized"}
    /\ IF FinalizeSucceeds(model)
       THEN \E length \in InitialLengths :
            /\ model' = FinalizedModel(model)
            /\ phase' = "simulating"
            /\ s' = InitialState(FinalizedModel(model)[1], length)
            /\ last' = Returned("initSystem", length, "ok")
       ELSE /\ model' = model
            /\ phase' = "error"
            /\ s' = s
            /\ last' = Returned("initSystem", 0, "InvalidPropertyValue")
    /\ UNCHANGED es

SetActivation ==
    /\ phase = "simulating"
    /\ \E activation \in ActivationValues :
        /\ s' = setActivation(this, s, activation)
        /\ last' = Returned("setActivation", activation, "ok")
    /\ UNCHANGED <<model, phase, es>>

\* Model::setControls(): the control of the muscle is set directly.
SetControls ==
    /\ phase = "simulating"
    /\ \E control \in ActivationValues :
        /\ s' = [s EXCEPT !.controls = control]
        /\ last' = Returned("setControls", control, "ok")
    /\ UNCHANGED <<model, phase, es>>

SetNormalizedTendonForce ==
    /\ phase = "simulating"
    /\ \E normTendonForce \in NormTendonForceValues :
        /\ s' = setNormalizedTendonForce(this, s, normTendonForce)
        /\ last' = Returned("setNormalizedTendonForce", normTendonForce, "ok")
    /\ UNCHANGED <<model, phase, es>>

\* Realizing the state to Stage::Dynamics computes the three muscle infos.
RealizeDynamics ==
    /\ phase = "simulating"
    /\ s' = [s EXCEPT !.cacheValid =
                [lengthInfo |-> TRUE, velInfo |-> TRUE, dynamicsInfo |-> TRUE]]
    /\ last' = Returned("realizeDynamics", 0, "ok")
    /\ UNCHANGED <<model, phase, es>>

\* The system realized to Stage::Acceleration: the derivatives of the state
\* variables are computed.
ComputeStateVariableDerivatives ==
    /\ phase = "simulating"
    /\ s' = computeStateVariableDerivatives(this, s)
    /\ last' = Returned("computeStateVariableDerivatives", 0, "ok")
    /\ UNCHANGED <<model, phase, es>>

\* The solver supplies the derivative of the normalized tendon force in the
\* discrete variable, which exists with the implicit tendon dynamics only.
SetDiscreteVariableValue ==
    /\ phase = "simulating"
    /\ getImplicitEnabledNormalizedTendonForce(this, s)
    /\ \E value \in DerivativeValues :
        /\ s' = [s EXCEPT
                   !.discreteVariables[DERIVATIVE_NORMALIZED_TENDON_FORCE_NAME]
                       = value]
        /\ last' = Returned("setDiscreteVariableValue", value, "ok")
    /\ UNCHANGED <<model, phase, es>>

\* The results of estimateMuscleFiberState for the calls that
\* computeInitialFiberEquilibrium makes in this model, computed once; a call
\* outside the table is computed when it is made.  The estimate at zero
\* velocity does not read the derivative of the normalized tendon force, so
\* the table holds the results for the derivative 0.
EstimateTableKeys ==
    {<<extendFinalizeFromProperties(
          [NewDeGrooteFregly2016Muscle(FALSE, iad, mode, 490, 6000, 150, 600,
               1000)
           EXCEPT !.ignore_passive_fiber_force = ignorePassive,
                  !.active_force_width_scale = scale]),
       activation, length, 0, 0,
       tolerance, maxIterations>> :
        iad \in BOOLEAN, mode \in {"explicit", "implicit"},
        ignorePassive \in BOOLEAN, scale \in {10000} \cup ScaleFactorValues,
        activation \in {0, 5000, 10000}, length \in InitialLengths,
        tolerance \in EquilibriumTolerances,
        maxIterations \in EquilibriumMaxIterations}

EstimateTable ==
    [k \in EstimateTableKeys |->
        estimateMuscleFiberState(k[1], k[2], k[3], k[4], k[5], k[6], k[7])]
    @@ <<>>

EstimateLookup(self, activation, muscleTendonLength, muscleTendonVelocity, normTendonForceDerivative, tolerance, maxIterations) ==
    LET k == <<self, activation, muscleTendonLength, muscleTendonVelocity,
               0, tolerance, maxIterations>>
    IN  IF k \in DOMAIN EstimateTable
        THEN EstimateTable[k]
        ELSE estimateMuscleFiberState(self, activation, muscleTendonLength,
                 muscleTendonVelocity, normTendonForceDerivative, tolerance,
                 maxIterations)

\* The outcome when a Failure status is handled as the other statuses are.
FiberEquilibriumOutcome_Fallback(self, st, result) ==
    [state |->
        setNormalizedTendonForce(self, st,
            result.values.normalized_tendon_force),
     ret |-> result.status]

\* computeInitialFiberEquilibrium(): with a compliant tendon, the fiber
\* state is estimated at zero fiber velocity.  A Success or a Warning status
\* writes the normalized tendon force (a Warning is also reported); a Failure
\* status throws and writes nothing.  The tolerance and the iteration cap
\* are constants of the implementation.
FiberEquilibriumOutcome(self, st, result) ==
    IF result.status = "Failure_MaxIterationsReached"
    THEN [state |-> st, ret |-> "MuscleCannotEquilibrate"]
    ELSE [state |->
             setNormalizedTendonForce(self, st,
                 result.values.normalized_tendon_force),
          ret |-> result.status]

computeInitialFiberEquilibrium(self, st, tolerance, maxIterations) ==
    IF get_ignore_tendon_compliance(self)
    THEN [state |-> st, ret |-> "ok"]
    ELSE FiberEquilibriumOutcome(self, st,
             EstimateLookup(self, getActivation(self, st),
                 st.muscleTendonLength, 0,
                 getNormalizedTendonForceDerivative(self, st),
                 tolerance, maxIterations))

ComputeInitialFiberEquilibrium ==
    /\ phase = "simulating"
    /\ \E tolerance \in EquilibriumTolerances,
          maxIterations \in EquilibriumMaxIterations :
        \E out \in {computeInitialFiberEquilibrium(this, s, tolerance,
                        maxIterations)} :
            /\ s' = out.state
            /\ phase' = IF out.ret = "MuscleCannotEquilibrate"
                        THEN "error" ELSE phase
            /\ last' = Returned("computeInitialFiberEquilibrium",
                           maxIterations, out.ret)
    /\ UNCHANGED <<model, es>>

---------------------------------------------------------------------------
(* The model operators (ModelOperators.h).  Each finalizes the model from *)
(* its properties, then sets one property of the muscles it ranges over.  *)

ModOpIgnoreActivationDynamics_operate(mdl) ==
    [i \in Muscles |-> [mdl[i] EXCEPT !.ignore_activation_dynamics = TRUE]]

\* The operator flipping the property instead of setting it.
ModOpIgnoreTendonCompliance_operate_Flipped(mdl) ==
    [i \in Muscles |->
        [mdl[i] EXCEPT !.ignore_tendon_compliance =
            ~mdl[i].ignore_tendon_compliance]]

ModOpIgnoreTendonCompliance_operate(mdl) ==
    [i \in Muscles |-> [mdl[i] EXCEPT !.ignore_tendon_compliance = TRUE]]

ModOpIgnorePassiveFiberForces_operate(mdl) ==
    [i \in Muscles |->
        IF IsDeGrooteFregly2016Muscle(mdl[i])
        THEN [mdl[i] EXCEPT !.ignore_passive_fiber_force = TRUE]
        ELSE mdl[i]]

\* The operator scaling the width the muscle has instead of setting it.
ModOpScaleActiveFiberForceCurveWidth_operate_Multiplying(mdl, scale_factor) ==
    [i \in Muscles |->
        IF IsDeGrooteFregly2016Muscle(mdl[i])
        THEN [mdl[i] EXCEPT !.active_force_width_scale =
                 Mul(mdl[i].active_force_width_scale, scale_factor)]
        ELSE mdl[i]]

ModOpScaleActiveFiberForceCurveWidth_operate(mdl, scale_factor) ==
    [i \in Muscles |->
        IF IsDeGrooteFregly2016Muscle(mdl[i])
        THEN [mdl[i] EXCEPT !.active_force_width_scale = scale_factor]
        ELSE mdl[i]]

\* operate(): model.finalizeFromProperties() first, which may throw.
\* The operators of a ModelProcessor act on the model before the system is
\* built from it.
Operate(name, arg, operated) ==
    /\ phase \in {"constructed", "finalized"}
    /\ IF FinalizeSucceeds(model)
       THEN /\ model' = operated
            /\ phase' = "finalized"
            /\ last' = Returned(name, arg, "ok")
       ELSE /\ model' = model
            /\ phase' = "error"
            /\ last' = Returned(name, arg, "InvalidPropertyValue")
    /\ UNCHANGED <<s, es>>

ModOpIgnoreActivationDynamics ==
    Operate("ModOpIgnoreActivationDynamics", 0,
        ModOpIgnoreActivationDynamics_operate(FinalizedModel(model)))

ModOpIgnoreTendonCompliance ==
    Operate("ModOpIgnoreTendonCompliance", 0,
        ModOpIgnoreTendonCompliance_operate(FinalizedModel(model)))

ModOpIgnorePassiveFiberForces ==
    Operate("ModOpIgnorePassiveFiberForces", 0,
        ModOpIgnorePassiveFiberForces_operate(FinalizedModel(model)))

ModOpScaleActiveFiberForceCurveWidth ==
    \E scale_factor \in ScaleFactorValues :
        Operate("ModOpScaleActiveFiberForceCurveWidth", scale_factor,
            ModOpScaleActiveFiberForceCurveWidth_operate(FinalizedModel(model),
                scale_factor))

Next ==
    \/ FinalizeFromProperties
    \/ InitSystem
    \/ SetActivation
    \/ SetControls
    \/ SetNormalizedTendonForce
    \/ RealizeDynamics
    \/ ComputeInitialFiberEquilibrium
    \/ ModOpIgnoreActivationDynamics
    \/ ModOpIgnoreTendonCompliance
    \/ ModOpIgnorePassiveFiberForces
    \/ ModOpScaleActiveFiberForceCurveWidth

Spec == Init /\ [][Next]_vars

---------------------------------------------------------------------------
(* The operations on the state of a model whose properties are valid: the *)
(* state is initialized, read, written and realized, the derivatives are  *)
(* computed and the initial equilibrium is solved.                        *)

DynamicsInit ==
    /\ \E itc \in BOOLEAN, iad \in BOOLEAN, mode \in {"explicit", "implicit"} :
          model = [i \in Muscles |->
                      IF i = 1
                      THEN NewDeGrooteFregly2016Muscle(itc, iad, mode, 490,
                               6000, 150, 600, 1000)
                      ELSE NewOtherMuscle]
    /\ phase = "constructed"
    /\ s = NoState
    /\ es = EstimateIdle
    /\ last = Returned("construct", 0, "ok")

DynamicsNext ==
    \/ InitSystem
    \/ SetActivation
    \/ SetControls
    \/ SetNormalizedTendonForce
    \/ SetDiscreteVariableValue
    \/ RealizeDynamics
    \/ ComputeStateVariableDerivatives
    \/ ComputeInitialFiberEquilibrium

DynamicsSpec == DynamicsInit /\ [][DynamicsNext]_vars

---------------------------------------------------------------------------
(* estimateMuscleFiberState run one iteration at a time on a finalized    *)
(* muscle, for inputs drawn from bounded sets.                            *)

SolverActivations == {0, 5000, 10000}

SolverTolerances == {0, 100}

SolverMaxIterations == {0, 1, MaxIterations}

\* Muscle-tendon lengths: too short for any fiber/tendon split (41700 by
\* less than the tolerance in force), within reach, and too long.  The tendon forces of every iterate stay within the
\* fixed-point range.
SolverLengths == {5000, 30000, 41700, 48000, 50000, 52000, 58000, 62000}

\* Fiber lengths from which a consistent muscle-tendon length is composed.
ChosenFiberLengths == {6000, 9000, 13000}

\* The muscle-tendon length of a muscle in equilibrium at the fiber length
\* given: the fiber length along the tendon plus the length of the tendon
\* under the fiber force along the tendon.
ConsistentLength(self, activation, fiberLength) ==
    LET normFiberLength == Div(fiberLength, get_optimal_fiber_length(self))
        cosPennationAngle ==
            sqrt(Sub(Scale, square(Div(self.m_fiberWidth, fiberLength))))
        fiberForce ==
            calcFiberForce(self, activation,
                calcActiveForceLengthMultiplier(self, normFiberLength),
                calcForceVelocityMultiplier(0),
                calcPassiveForceMultiplier(self, normFiberLength), 0)
        normTendonForce ==
            Div(Mul(fiberForce.totalFiberForce, cosPennationAngle),
                get_max_isometric_force(self))
    IN  Add(Mul(fiberLength, cosPennationAngle),
            Mul(get_tendon_slack_length(self),
                calcTendonForceLengthInverseCurve(self, normTendonForce)))

SolverMuscles ==
    {extendFinalizeFromProperties(
        [NewDeGrooteFregly2016Muscle(FALSE, FALSE, "explicit", 490, 6000,
            150, 600, pennation)
         EXCEPT !.ignore_passive_fiber_force = ignorePassive]) :
     pennation \in {0, 1000}, ignorePassive \in BOOLEAN}

SolverInit ==
    /\ \E muscle \in SolverMuscles :
          model = [i \in Muscles |-> IF i = 1 THEN muscle ELSE NewOtherMuscle]
    /\ phase = "finalized"
    /\ s = NoState
    /\ es = EstimateIdle
    /\ last = Returned("finalizeFromProperties", 0, "ok")

EstimateInputs(self) ==
    [activation : SolverActivations,
     muscleTendonLength : SolverLengths,
     muscleTendonVelocity : {0},
     normTendonForceDerivative : {0},
     tolerance : SolverTolerances,
     maxIterations : SolverMaxIterations,
     chosenFiberLength : {0}]
    \cup
    {[activation |-> a,
      muscleTendonLength |-> ConsistentLength(self, a, fl),
      muscleTendonVelocity |-> 1000,
      normTendonForceDerivative |-> 5000,
      tolerance |-> tol,
      maxIterations |-> mi,
      chosenFiberLength |-> fl] :
        a \in SolverActivations, fl \in ChosenFiberLengths,
        tol \in SolverTolerances, mi \in SolverMaxIterations}

EstimateCall ==
    /\ es.pc = "idle"
    /\ \E in \in EstimateInputs(this) :
          es' = [pc |-> "loop", r |-> EstimateStart(this, in)]
    /\ last' = Returned("estimateMuscleFiberState", 0, "running")
    /\ UNCHANGED <<model, phase, s>>

EstimateIterate ==
    /\ es.pc = "loop"
    /\ EstimateContinue(es.r)
    /\ es' = [pc |-> "loop", r |-> EstimateStep(this, es.r)]
    /\ UNCHANGED <<model, phase, s, last>>

EstimateReturn ==
    /\ es.pc = "loop"
    /\ ~EstimateContinue(es.r)
    /\ es' = [pc |-> "done", r |-> es.r]
    /\ last' = Returned("estimateMuscleFiberState", 0, EstimateResult(es.r))
    /\ UNCHANGED <<model, phase, s>>

SolverNext ==
    \/ EstimateCall
    \/ EstimateIterate
    \/ EstimateReturn

SolverSpec == SolverInit /\ [][SolverNext]_vars

---------------------------------------------------------------------------
(* estimateMuscleFiberState on muscles of small and of large pennation     *)
(* angles at the optimal fiber length (0.1, 0.3 and 0.5 rad).              *)

PennationAngles == {1000, 3000, 5000}

PennationInit ==
    /\ \E pennation \in PennationAngles :
          model = [i \in Muscles |->
                      IF i = 1
                      THEN extendFinalizeFromProperties(
                               NewDeGrooteFregly2016Muscle(FALSE, FALSE,
                                   "explicit", 490, 6000, 150, 600, pennation))
                      ELSE NewOtherMuscle]
    /\ phase = "finalized"
    /\ s = NoState
    /\ es = EstimateIdle
    /\ last = Returned("finalizeFromProperties", 0, "ok")

PennationSpec == PennationInit /\ [][SolverNext]_vars

---------------------------------------------------------------------------
(* Reads of the muscle infos between writes of the state: the cache of     *)
(* the state holds the infos that were computed last.                      *)

\* The default state with its three cache entries not yet computed.
InitialInfoState(self, length) ==
    [f \in DOMAIN InitialState(self, length) \cup {"mli", "fvi", "mdi"} |->
        IF f \in {"mli", "fvi", "mdi"} THEN NoInfo
        ELSE InitialState(self, length)[f]]

InfoInit ==
    /\ \E itc, iad \in BOOLEAN, mode \in {"explicit", "implicit"} :
          model = [i \in Muscles |->
                      IF i = 1
                      THEN extendFinalizeFromProperties(
                               [NewDeGrooteFregly2016Muscle(itc, iad, mode, 490,
                                    6000, 150, 600, 1000)
                                EXCEPT !.max_isometric_force = 25000])
                      ELSE NewOtherMuscle]
    /\ phase = "simulating"
    /\ s = InitialInfoState(model[1], 50000)
    /\ es = EstimateIdle
    /\ last = Returned("initSystem", 50000, "ok")

\* A read through the cache: the state after it and the value returned.
InfoReturns(op, after, ret) ==
    /\ s' = after
    /\ last' = Returned(op, 0, ret)
    /\ UNCHANGED <<model, phase, es>>

\* The state after a read is the state with the dynamics info in its
\* cache; the value returned is the one the accessor gives on it.
GetTendonForce ==
    /\ phase = "simulating"
    /\ \E after \in {getMuscleDynamicsInfo(this, s)} :
          InfoReturns("getTendonForce", after, getTendonForce(this, after))

GetFiberForce ==
    /\ phase = "simulating"
    /\ \E after \in {getMuscleDynamicsInfo(this, s)} :
          InfoReturns("getFiberForce", after, getFiberForce(this, after))

GetEquilibriumResidual ==
    /\ phase = "simulating"
    /\ \E after \in {getMuscleDynamicsInfo(this, s)} :
          InfoReturns("getEquilibriumResidual", after,
                      getEquilibriumResidual(this, after))

GetNormalizedTendonForce ==
    /\ phase = "simulating"
    /\ \E after \in {IF get_ignore_tendon_compliance(this)
                     THEN getMuscleDynamicsInfo(this, s) ELSE s} :
          InfoReturns("getNormalizedTendonForce", after,
                      getNormalizedTendonForce(this, after))

InfoNext ==
    \/ SetActivation
    \/ SetNormalizedTendonForce
    \/ GetTendonForce
    \/ GetFiberForce
    \/ GetEquilibriumResidual
    \/ GetNormalizedTendonForce

InfoSpec == InfoInit /\ [][InfoNext]_vars

---------------------------------------------------------------------------
(* PropertyDbl (PropertyDbl.cpp): a property holding one double.  The      *)
(* variable model holds the property objects of a program, last the call  *)
(* made last and what it returned.                                        *)

Properties == {"p", "q"}

PropertyNames == {"scale_factor"}

\* The doubles written: 0, 1.5, -123.4567 (seven significant digits) and NaN.
PropertyValues == {0, 15000, -1234567, NaN}

NoProperty == [exists |-> FALSE]

DecimalDigits == <<"0", "1", "2", "3", "4", "5", "6", "7", "8", "9">>

\* The decimal digits of the natural number n, at least width of them.
RECURSIVE DigitString(_, _)
DigitString(n, width) ==
    IF n < 10 /\ width <= 1 THEN DecimalDigits[n + 1]
    ELSE DigitString(n \div 10, width - 1) \o DecimalDigits[(n % 10) + 1]

\* The decimals of a fraction, given as count digits, without the zeros at
\* its end; empty for the fraction 0.
RECURSIVE FractionString(_, _)
FractionString(fraction, count) ==
    IF fraction = 0 \/ count = 0 THEN ""
    ELSE IF fraction % 10 = 0 THEN FractionString(fraction \div 10, count - 1)
    ELSE "." \o DigitString(fraction, count)

\* The number of decimals that six significant digits leave to a number
\* whose integer part is whole; no more than the four the values carry.
DecimalsOf(whole) ==
    IF whole < 10 THEN 4
    ELSE IF whole < 100 THEN 4
    ELSE IF whole < 1000 THEN 3
    ELSE IF whole < 10000 THEN 2
    ELSE IF whole < 100000 THEN 1
    ELSE 0

PowerOfTen(n) == IF n = 0 THEN 1 ELSE IF n = 1 THEN 10 ELSE IF n = 2 THEN 100 ELSE IF n = 3 THEN 1000 ELSE 10000

\* magnitude, a count of ten-thousandths, rounded to the given decimals
\* and written in fixed notation.
FormatRounded(rounded, decimals) ==
    DigitString(rounded \div PowerOfTen(decimals), 1)
        \o FractionString(rounded % PowerOfTen(decimals), decimals)

FormatMagnitude(magnitude, decimals) ==
    FormatRounded((magnitude + (PowerOfTen(4 - decimals) \div 2))
                      \div PowerOfTen(4 - decimals), decimals)

\* sprintf(dbl, "%g", value): six significant digits, the zeros at the end
\* of the fraction removed; for magnitudes from 0.0001 to below 1000000,
\* which are written in fixed notation.
FormatG(value) ==
    IF IsNaN(value) THEN "nan"
    ELSE IF value = Infinity THEN "inf"
    ELSE IF value = -Infinity THEN "-inf"
    ELSE IF value < 0
         THEN "-" \o FormatMagnitude(-value, DecimalsOf((-value) \div Scale))
         ELSE FormatMagnitude(value, DecimalsOf(value \div Scale))

\* PropertyDbl(): the name "DblPropertyName" and the value 0.0.
PropertyDbl_Default ==
    [exists |-> TRUE, _name |-> "DblPropertyName", _value |-> 0,
     _valueString |-> ""]

\* PropertyDbl(aName, aValue).
PropertyDbl_Named(aName, aValue) ==
    [exists |-> TRUE, _name |-> aName, _value |-> aValue, _valueString |-> ""]

PropertyDbl_getValueDbl(self) == self._value

\* The copy constructor giving a property without the value of its source.
PropertyDbl_Copy_Defaulted(aProperty, valueString) ==
    [exists |-> TRUE, _name |-> aProperty._name, _value |-> 0,
     _valueString |-> valueString]

\* PropertyDbl(aProperty): the base part copied, the value read from the
\* source.  The text member is not named by the constructor: valueString is
\* what the build leaves in it.
PropertyDbl_Copy(aProperty, valueString) ==
    [exists |-> TRUE, _name |-> aProperty._name,
     _value |-> PropertyDbl_getValueDbl(aProperty),
     _valueString |-> valueString]

\* operator=(aProperty).
PropertyDbl_assign(self, aProperty, valueString) ==
    [self EXCEPT !._name = aProperty._name,
                 !._value = PropertyDbl_getValueDbl(aProperty),
                 !._valueString = valueString]

\* setValue keeping the value on a write of zero.
PropertyDbl_setValue_UnlessZero(self, aValue) ==
    IF aValue = 0 THEN self ELSE [self EXCEPT !._value = aValue]

PropertyDbl_setValue(self, aValue) == [self EXCEPT !._value = aValue]

\* toString(): the text is formatted from the value on every call and kept
\* in the member the returned reference names.
PropertyDbl_toString(self) ==
    [self EXCEPT !._valueString = FormatG(self._value)]

\* A call on the property target, with the source and the value it was
\* given (NoProperty and NaN where the call takes none).
PropertyCall(target, source, value) ==
    [target |-> target, source |-> source, value |-> value]

PropertyReturns(op, arg, after, ret) ==
    /\ model' = after
    /\ last' = Returned(op, arg, ret)
    /\ UNCHANGED <<phase, s, es>>

PropertyInit ==
    /\ model = [x \in Properties |-> NoProperty]
    /\ phase = "properties"
    /\ s = NoState
    /\ es = EstimateIdle
    /\ last = Returned("start", 0, "ok")

ConstructDefault ==
    \E x \in Properties :
        /\ ~model[x].exists
        /\ PropertyReturns("PropertyDbl()", PropertyCall(x, x, 0),
               [model EXCEPT ![x] = PropertyDbl_Default], "ok")

ConstructNamed ==
    \E x \in Properties, aName \in PropertyNames, aValue \in PropertyValues :
        /\ ~model[x].exists
        /\ PropertyReturns("PropertyDbl(aName, aValue)",
               PropertyCall(x, x, aValue),
               [model EXCEPT ![x] = PropertyDbl_Named(aName, aValue)], "ok")

\* PropertyDbl(aProperty): x is the new property, y its source.
CopyConstruct ==
    \E x, y \in Properties :
        /\ ~model[x].exists
        /\ model[y].exists
        /\ \E valueString \in {"", model[y]._valueString} :
              PropertyReturns("PropertyDbl(aProperty)",
                  PropertyCall(x, y, model[y]._value),
                  [model EXCEPT ![x] = PropertyDbl_Copy(model[y], valueString)],
                  "ok")

\* copy(): new PropertyDbl(*this), returned to the caller.
Copy ==
    \E x, y \in Properties :
        /\ ~model[x].exists
        /\ model[y].exists
        /\ \E valueString \in {"", model[y]._valueString} :
              PropertyReturns("copy", PropertyCall(x, y, model[y]._value),
                  [model EXCEPT ![x] = PropertyDbl_Copy(model[y], valueString)],
                  x)

\* x = y.
Assign ==
    \E x, y \in Properties :
        /\ model[x].exists
        /\ model[y].exists
        /\ \E valueString \in {model[x]._valueString, model[y]._valueString} :
              PropertyReturns("operator=", PropertyCall(x, y, model[y]._value),
                  [model EXCEPT ![x] =
                      PropertyDbl_assign(model[x], model[y], valueString)],
                  x)

SetValue ==
    \E x \in Properties, aValue \in PropertyValues :
        /\ model[x].exists
        /\ PropertyReturns("setValue", PropertyCall(x, x, aValue),
               [model EXCEPT ![x] = PropertyDbl_setValue(model[x], aValue)],
               "ok")

\* x.getValueDbl() = aValue: a write through the reference that the
\* non-const getValueDbl() returns, which names the member _value.
WriteValueDbl ==
    \E x \in Properties, aValue \in PropertyValues :
        /\ model[x].exists
        /\ PropertyReturns("getValueDbl() =", PropertyCall(x, x, aValue),
               [model EXCEPT ![x]._value = aValue], "ok")

GetValueDbl ==
    \E x \in Properties :
        /\ model[x].exists
        /\ PropertyReturns("getValueDbl", PropertyCall(x, x, NaN), model,
               PropertyDbl_getValueDbl(model[x]))

PropertyToString ==
    \E x \in Properties :
        /\ model[x].exists
        /\ PropertyReturns("toString", PropertyCall(x, x, NaN),
               [model EXCEPT ![x] = PropertyDbl_toString(model[x])],
               PropertyDbl_toString(model[x])._valueString)

PropertyNext ==
    \/ ConstructDefault
    \/ ConstructNamed
    \/ CopyConstruct
    \/ Copy
    \/ Assign
    \/ SetValue
    \/ WriteValueDbl
    \/ GetValueDbl
    \/ PropertyToString

PropertySpec == PropertyInit /\ [][PropertyNext]_vars

---------------------------------------------------------------------------
(* Concurrent evaluations on one finalized muscle: each thread runs        *)
(* estimateMuscleFiberState one iteration at a time, or evaluates the      *)
(* curves, with inputs of its own; the steps of the threads interleave.    *)

Threads == {1, 2}

ConcurrentLengths == {30000, 50000, 52000}

ConcurrentInputs ==
    [activation : {5000, 10000},
     muscleTendonLength : ConcurrentLengths,
     muscleTendonVelocity : {0},
     normTendonForceDerivative : {0},
     tolerance : EquilibriumTolerances,
     maxIterations : {MaxIterations}]

CurveArguments == {5000, 10000, 10490}

\* The curves evaluated at one argument.
EvaluateCurves(self, x) ==
    [activeForceLength |-> calcActiveForceLengthMultiplier(self, x),
     passiveForce |-> calcPassiveForceMultiplier(self, x),
     tendonForce |-> calcTendonForceMultiplier(self, x)]

\* The iterate of a call shared by the calls that are in the loop.
StoreIterate_Shared(calls, t, r) ==
    [u \in DOMAIN calls |->
        IF u = t \/ calls[u].pc = "loop"
        THEN [calls[u] EXCEPT !.r = r]
        ELSE calls[u]]

\* The iterate of a call is a local of that call: storing it changes the
\* storage of no other call.
StoreIterate(calls, t, r) == [calls EXCEPT ![t].r = r]

ConcurrentInit ==
    /\ model = [i \in Muscles |->
                   IF i = 1
                   THEN extendFinalizeFromProperties(
                            NewDeGrooteFregly2016Muscle(FALSE, FALSE,
                                "explicit", 490, 6000, 150, 600, 1000))
                   ELSE NewOtherMuscle]
    /\ phase = "finalized"
    /\ s = NoState
    /\ es = [pc |-> "concurrent", calls |-> [t \in Threads |-> [pc |-> "idle"]]]
    /\ last = Returned("finalizeFromProperties", 0, "ok")

ThreadCall(t) ==
    /\ es.calls[t].pc = "idle"
    /\ \E in \in ConcurrentInputs :
          es' = [es EXCEPT !.calls[t] =
                    [pc |-> "loop", in |-> in, r |-> EstimateStart(this, in)]]
    /\ UNCHANGED <<model, phase, s, last>>

ThreadIterate(t) ==
    /\ es.calls[t].pc = "loop"
    /\ EstimateContinue(es.calls[t].r)
    /\ es' = [es EXCEPT !.calls =
                 StoreIterate(es.calls, t, EstimateStep(this, es.calls[t].r))]
    /\ UNCHANGED <<model, phase, s, last>>

ThreadReturn(t) ==
    /\ es.calls[t].pc = "loop"
    /\ ~EstimateContinue(es.calls[t].r)
    /\ es' = [es EXCEPT !.calls[t] =
                 [pc |-> "done", in |-> es.calls[t].in,
                  ret |-> EstimateResult(es.calls[t].r)]]
    /\ UNCHANGED <<model, phase, s, last>>

ThreadCurves(t) ==
    /\ es.calls[t].pc = "idle"
    /\ \E x \in CurveArguments :
          es' = [es EXCEPT !.calls[t] =
                    [pc |-> "curves", in |-> x,
                     ret |-> EvaluateCurves(this, x)]]
    /\ UNCHANGED <<model, phase, s, last>>

ConcurrentNext ==
    \E t \in Threads :
        \/ ThreadCall(t)
        \/ ThreadIterate(t)
        \/ ThreadReturn(t)
        \/ ThreadCurves(t)

ConcurrentSpec == ConcurrentInit /\ [][ConcurrentNext]_vars

---------------------------------------------------------------------------
(* The curves evaluated on a finalized muscle, for parameters and          *)
(* arguments drawn from bounded sets.                                      *)

PassiveStrains == {6000, 10000, 20000}

TendonStrains == {300, 490, 1000}

WidthScales == {5000, 10000, 20000}

CurveMuscle(tendonStrain, passiveStrain, ignorePassive, widthScale) ==
    extendFinalizeFromProperties(
        [NewDeGrooteFregly2016Muscle(FALSE, FALSE, "explicit", tendonStrain,
            passiveStrain, 150, 600, 0)
         EXCEPT !.ignore_passive_fiber_force = ignorePassive,
                !.active_force_width_scale = widthScale])

\* The muscles of every strain at the width of the curve itself, and the
\* muscle of the default strains at every width.
CurveMuscles ==
    {CurveMuscle(tendonStrain, passiveStrain, ignorePassive, Scale) :
         tendonStrain \in TendonStrains, passiveStrain \in PassiveStrains,
         ignorePassive \in BOOLEAN}
    \cup {CurveMuscle(490, 6000, FALSE, widthScale) : widthScale \in WidthScales}

\* Normalized fiber lengths from minNormFiberLength to maxNormFiberLength.
NormFiberLengths == {2000, 6000, 10000, 12000, 14000, 16000, 18000}

\* Normalized fiber velocities in [-1, 1].
NormFiberVelocities == {-10000, -7500, -5000, -2500, 0, 2500, 5000, 7500, 10000}

\* Normalized tendon lengths around the slack length.
NormTendonLengths == {9800, 10000, 10100, 10300, 10490, 10600}

\* Values that are not finite, and some beyond the ranges above.
OtherArguments == {NaN, Infinity, -Infinity, 0, -10000, 30000}

CurveInit ==
    /\ \E muscle \in CurveMuscles :
          model = [i \in Muscles |-> IF i = 1 THEN muscle ELSE NewOtherMuscle]
    /\ phase = "finalized"
    /\ s = NoState
    /\ es = EstimateIdle
    /\ last = Returned("finalizeFromProperties", 0, "ok")

CurveReturns(op, arg, ret) ==
    /\ last' = Returned(op, arg, ret)
    /\ UNCHANGED <<model, phase, s, es>>

CalcActiveForceLengthMultiplier ==
    \E x \in NormFiberLengths :
        CurveReturns("calcActiveForceLengthMultiplier", x,
                     calcActiveForceLengthMultiplier(this, x))

CalcActiveForceLengthMultiplierDerivative ==
    \E x \in NormFiberLengths :
        CurveReturns("calcActiveForceLengthMultiplierDerivative", x,
                     calcActiveForceLengthMultiplierDerivative(this, x))

CalcPassiveForceMultiplier ==
    \E x \in NormFiberLengths \cup OtherArguments :
        CurveReturns("calcPassiveForceMultiplier", x,
                     calcPassiveForceMultiplier(this, x))

CalcPassiveForceMultiplierDerivative ==
    \E x \in NormFiberLengths \cup OtherArguments :
        CurveReturns("calcPassiveForceMultiplierDerivative", x,
                     calcPassiveForceMultiplierDerivative(this, x))

CalcPassiveForceMultiplierIntegral ==
    \E x \in NormFiberLengths \cup OtherArguments :
        CurveReturns("calcPassiveForceMultiplierIntegral", x,
                     calcPassiveForceMultiplierIntegral(this, x))

CalcForceVelocityMultiplier ==
    \E v \in NormFiberVelocities :
        CurveReturns("calcForceVelocityMultiplier", v,
                     calcForceVelocityMultiplier(v))

\* The inverse curve is given a value the curve returned.
CalcForceVelocityInverseCurve ==
    /\ last.op = "calcForceVelocityMultiplier"
    /\ CurveReturns("calcForceVelocityInverseCurve", last.ret,
                    calcForceVelocityInverseCurve(last.ret))

CalcTendonForceMultiplier ==
    \E x \in NormTendonLengths :
        CurveReturns("calcTendonForceMultiplier", x,
                     calcTendonForceMultiplier(this, x))

\* The inverse curve is given a value the curve returned, or any other.
CalcTendonForceLengthInverseCurve ==
    \E f \in {-c3, -c3 - 1, -c3 + 1, -Scale, NaN}
              \cup (IF last.op = "calcTendonForceMultiplier"
                    THEN {last.ret} ELSE {}) :
        CurveReturns("calcTendonForceLengthInverseCurve", f,
                     calcTendonForceLengthInverseCurve(this, f))

CurveNext ==
    \/ CalcActiveForceLengthMultiplier
    \/ CalcActiveForceLengthMultiplierDerivative
    \/ CalcPassiveForceMultiplier
    \/ CalcPassiveForceMultiplierDerivative
    \/ CalcPassiveForceMultiplierIntegral
    \/ CalcForceVelocityMultiplier
    \/ CalcForceVelocityInverseCurve
    \/ CalcTendonForceMultiplier
    \/ CalcTendonForceLengthInverseCurve

CurveSpec == CurveInit /\ [][CurveNext]_vars

---------------------------------------------------------------------------
(* calcFiberForce on muscles of several maximum isometric forces and       *)
(* fiber dampings, for arguments drawn from bounded sets.                  *)

MaxIsometricForces == {10000, 25000}

FiberDampings == {0, 1000}

FiberForceArguments ==
    [activation : {0, 5000, 10000},
     activeForceLengthMultiplier : {5000, 10000},
     forceVelocityMultiplier : {0, 10000, 15000},
     normPassiveFiberForce : {0, 3000},
     normFiberVelocity : {-5000, 0, 5000}]

FiberForceInit ==
    /\ \E maxIsometricForce \in MaxIsometricForces, damping \in FiberDampings :
          model = [i \in Muscles |->
                      IF i = 1
                      THEN extendFinalizeFromProperties(
                               [NewDeGrooteFregly2016Muscle(FALSE, FALSE,
                                    "explicit", 490, 6000, 150, 600, 0)
                                EXCEPT !.max_isometric_force = maxIsometricForce,
                                       !.fiber_damping = damping])
                      ELSE NewOtherMuscle]
    /\ phase = "finalized"
    /\ s = NoState
    /\ es = EstimateIdle
    /\ last = Returned("finalizeFromProperties", 0, "ok")

CalcFiberForce ==
    \E a \in FiberForceArguments :
        CurveReturns("calcFiberForce", a,
            calcFiberForce(this, a.activation, a.activeForceLengthMultiplier,
                a.forceVelocityMultiplier, a.normPassiveFiberForce,
                a.normFiberVelocity))

FiberForceNext == CalcFiberForce

FiberForceSpec == FiberForceInit /\ [][FiberForceNext]_vars

---------------------------------------------------------------------------
(* Claims about estimateMuscleFiberState, under SolverSpec.               *)

EstimateDone == es.pc = "done"

EstimatePinned(r) ==
    r.atLowerBound >= PinnedIterations \/ r.atUpperBound >= PinnedIterations

\* C1: the loop of estimateMuscleFiberState never runs more iterations than
\* maxIterations, whatever the inputs, the tolerance and maxIterations; a
\* return that is due to the cap (the residual above the tolerance, the
\* iterate not pinned at a bound) has status Failure_MaxIterationsReached,
\* and that status is returned only at the cap.
C1_IterationsBounded ==
    /\ es.pc \in {"loop", "done"} => es.r.iter <= es.r.in.maxIterations
    /\ EstimateDone =>
        /\ last.ret.values.iterations <= es.r.in.maxIterations
        /\ (/\ Gt(last.ret.values.solution_error, es.r.in.tolerance)
            /\ ~EstimatePinned(es.r))
           => last.ret.status = "Failure_MaxIterationsReached"
        /\ last.ret.status = "Failure_MaxIterationsReached"
           => last.ret.values.iterations = es.r.in.maxIterations

C1_Witness ==
    /\ EstimateDone
    /\ last.ret.status = "Failure_MaxIterationsReached"
    /\ last.ret.values.iterations = MaxIterations

C3_IterateClamped ==
    [][(es.pc = "loop" /\ es'.pc = "loop") =>
        /\ Le(2000, Div(es'.r.fiberLength, get_optimal_fiber_length(this)))
        /\ Le(Div(es'.r.fiberLength, get_optimal_fiber_length(this)), 18000)
        /\ Lt(EstimateNewton(es.r), Mul(2000, get_optimal_fiber_length(this)))
           => es'.r.fiberLength = Mul(2000, get_optimal_fiber_length(this))
        /\ Gt(EstimateNewton(es.r), Mul(18000, get_optimal_fiber_length(this)))
           => es'.r.fiberLength = Mul(18000, get_optimal_fiber_length(this))
        /\ es'.r.iter = es.r.iter + 1]_vars

C3_Witness ==
    /\ es.pc = "loop"
    /\ es.r.iter = 1
    /\ es.r.atLowerBound = 1
    /\ es.r.fiberLength = minFiberLength(this)
    /\ EstimateContinue(es.r)

\* A muscle-tendon length too short for any split into a tendon at its
\* slack length or longer and a fiber at its lower bound or longer.
TooShort(self, muscleTendonLength) ==
    Lt(muscleTendonLength,
       Add(get_tendon_slack_length(self),
           Mul(minFiberLength(self),
               sqrt(Sub(Scale,
                   square(Div(self.m_fiberWidth, minFiberLength(self))))))))

ValuesAreFinite(values) ==
    /\ IsFinite(values.solution_error)
    /\ IsFinite(values.fiber_length)
    /\ IsFinite(values.fiber_velocity)
    /\ IsFinite(values.normalized_tendon_force)

WarningAtBound(self, ret) ==
    \/ /\ ret.status = "Warning_FiberAtLowerBound"
       /\ ret.values.fiber_length = minFiberLength(self)
    \/ /\ ret.status = "Warning_FiberAtUpperBound"
       /\ ret.values.fiber_length = maxFiberLength(self)

---------------------------------------------------------------------------
(* Claims about the muscle in a model, under Spec.                        *)

WarningStatuses == {"Warning_FiberAtLowerBound", "Warning_FiberAtUpperBound"}

\* What computeInitialFiberEquilibrium owes its caller for a result of the
\* solver: a Failure leaves the state as it was and ends the initialization
\* with an exception; a Warning writes the normalized tendon force of the
\* result and is reported.
FiberEquilibriumHandled(result, before, after, phaseAfter, ret) ==
    /\ result.status = "Failure_MaxIterationsReached" =>
        /\ after = before
        /\ phaseAfter = "error"
        /\ ret = "MuscleCannotEquilibrate"
    /\ result.status \in WarningStatuses =>
        /\ getStateVariableValue(after, STATE_NORMALIZED_TENDON_FORCE_NAME)
               = result.values.normalized_tendon_force
        /\ phaseAfter = "simulating"
        /\ ret = result.status

\* C5: in computeInitialFiberEquilibrium of a muscle with a compliant
\* tendon, a result Failure_MaxIterationsReached of the solver is thrown to
\* the caller as an error of the initialization and the state, the
\* normalized tendon force included, is left as it was; a Warning result
\* writes the normalized tendon force of the result into the state and the
\* warning is what the caller is told.
C5_FailurePropagates ==
    [][(/\ last'.op = "computeInitialFiberEquilibrium"
        /\ phase = "simulating"
        /\ ~get_ignore_tendon_compliance(this)) =>
        \A tolerance \in EquilibriumTolerances :
            FiberEquilibriumHandled(
                EstimateLookup(this, getActivation(this, s),
                    s.muscleTendonLength, 0,
                    getNormalizedTendonForceDerivative(this, s),
                    tolerance, last'.arg),
                s, s', phase', last'.ret)]_vars

C5_Witness ==
    /\ phase = "error"
    /\ last.op = "computeInitialFiberEquilibrium"
    /\ last.ret = "MuscleCannotEquilibrate"
    /\ getStateVariableValue(s, STATE_NORMALIZED_TENDON_FORCE_NAME) = 60000

\* States of other shapes than the state of the model, to pass to the
\* accessors.
OtherStates ==
    {NoState} \cup
    {[InitialState(PlainDeGrooteFregly2016Muscle, length)
        EXCEPT !.stateVariableDerivatives[STATE_NORMALIZED_TENDON_FORCE_NAME]
                   = derivative,
               !.discreteVariables[DERIVATIVE_NORMALIZED_TENDON_FORCE_NAME]
                   = derivative] :
        length \in InitialLengths, derivative \in {NaN, 0, 25000}}

\* C6: on a finalized muscle, getImplicitEnabledNormalizedTendonForce is
\* true exactly when ignore_tendon_compliance is false and
\* tendon_compliance_dynamics_mode is "implicit": it is false with a rigid
\* tendon whatever the mode, false with the mode "explicit", and the same
\* for every state passed.
C6_ImplicitEnabledQuery ==
    phase \in {"finalized", "simulating"} =>
        \A st \in {s} \cup OtherStates :
            getImplicitEnabledNormalizedTendonForce(this, st)
                <=> (/\ this.ignore_tendon_compliance = FALSE
                     /\ this.tendon_compliance_dynamics_mode = "implicit")

C6_Witness ==
    /\ phase = "simulating"
    /\ this.ignore_tendon_compliance
    /\ this.tendon_compliance_dynamics_mode = "implicit"
    /\ ~getImplicitEnabledNormalizedTendonForce(this, s)

\* The muscle with another mode string and another computed mode member.
WithMode(self, mode, isExplicit) ==
    [self EXCEPT !.tendon_compliance_dynamics_mode = mode,
                 !.m_isTendonDynamicsExplicit = isExplicit]

NormTendonLengthValues == {0, 9000, 10000, 10490, 12000}

\* C7: with ignore_tendon_compliance true, for every state, every mode
\* string and either value of the computed mode member,
\* getNormalizedTendonForceDerivative is 0 and calcTendonStiffness is
\* SimTK::Infinity for every normalized tendon length.
C7_RigidTendon ==
    this.ignore_tendon_compliance =>
        \A mode \in ModeValues, isExplicit \in BOOLEAN :
            /\ \A st \in ({s} \cup OtherStates) \ {NoState} :
                getNormalizedTendonForceDerivative(
                    WithMode(this, mode, isExplicit), st) = 0
            /\ \A normTendonLength \in NormTendonLengthValues :
                calcTendonStiffness(WithMode(this, mode, isExplicit),
                    normTendonLength) = Infinity

C7_Witness ==
    /\ phase = "simulating"
    /\ this.ignore_tendon_compliance
    /\ this.tendon_compliance_dynamics_mode = "implicit"
    /\ last.op = "setNormalizedTendonForce"
    /\ getNormalizedTendonForceDerivative(this, s) = 0
    /\ calcTendonStiffness(this, 10490) = Infinity

\* C8: with ignore_activation_dynamics true, getActivation is the control
\* of the muscle; after setActivation(s, a) the control is a and
\* getActivation(s) is a; after the control is set to c, getActivation(s)
\* is c.
C8_ActivationIsControl ==
    (phase = "simulating" /\ this.ignore_activation_dynamics) =>
        /\ getActivation(this, s) = s.controls
        /\ last.op = "setActivation" =>
            /\ s.controls = last.arg
            /\ getActivation(this, s) = last.arg
        /\ last.op = "setControls" => getActivation(this, s) = last.arg

C8_Witness ==
    /\ phase = "simulating"
    /\ this.ignore_activation_dynamics
    /\ last.op = "setActivation"
    /\ last.arg = 10000
    /\ s.controls = 10000
    /\ getActivation(this, s) = 10000

\* The branch the accessors and the dynamics of a muscle dispatch to.
Configuration(self, st) ==
    <<TendonConfiguration(self, st), ActivationConfiguration(self)>>

Finalized == phase \in {"finalized", "simulating"}

\* C9 as claimed: once the muscle is finalized no operation, the model
\* operators included, changes its configuration.
C9_Original ==
    [][Finalized => Configuration(this', s') = Configuration(this, s)]_vars

\* C9 as amended: once the muscle is finalized, the operations on the state
\* (get/set, realization, equilibrium solve) and a new finalization leave
\* its configuration as it is; of the model operators,
\* ModOpIgnoreTendonCompliance makes the tendon configuration RigidTendon
\* and ModOpIgnoreActivationDynamics makes the activation configuration
\* the one without activation dynamics, each leaves the other component
\* as it is, and the other operators change neither.
C9_ConfigurationFixed ==
    [][Finalized =>
        /\ last'.op # "ModOpIgnoreTendonCompliance"
            => TendonConfiguration(this', s') = TendonConfiguration(this, s)
        /\ last'.op # "ModOpIgnoreActivationDynamics"
            => ActivationConfiguration(this') = ActivationConfiguration(this)
        /\ last'.op = "ModOpIgnoreTendonCompliance"
            => TendonConfiguration(this', s') = "RigidTendon"
        /\ last'.op = "ModOpIgnoreActivationDynamics"
            => ActivationConfiguration(this') = "WithoutActivationDynamics"
        /\ this'.m_isTendonDynamicsExplicit = this.m_isTendonDynamicsExplicit
      ]_vars

C9_Witness ==
    /\ phase = "simulating"
    /\ last.op = "computeInitialFiberEquilibrium"
    /\ last.ret = "Success_Converged"
    /\ Configuration(this, s)
           = <<"ImplicitCompliantTendon", "WithActivationDynamics">>

\* The property values that are configuration errors.
InvalidProperties(self) ==
    \/ self.tendon_compliance_dynamics_mode \notin {"explicit", "implicit"}
    \/ self.tendon_strain_at_one_norm_force <= 0
    \/ self.passive_fiber_strain_at_one_norm_force <= 0
    \/ self.activation_time_constant <= 0
    \/ self.deactivation_time_constant <= 0

FinalizingOperations ==
    {"finalizeFromProperties", "initSystem", "ModOpIgnoreActivationDynamics",
     "ModOpIgnoreTendonCompliance", "ModOpIgnorePassiveFiberForces",
     "ModOpScaleActiveFiberForceCurveWidth"}

\* C10: a finalization of a muscle whose tendon_compliance_dynamics_mode is
\* neither "explicit" nor "implicit", or whose tendon_strain_at_one_norm_force,
\* passive_fiber_strain_at_one_norm_force, activation_time_constant or
\* deactivation_time_constant is not positive, throws a configuration error,
\* and no state is ever created for such a muscle; a finalization of a
\* muscle with valid properties succeeds.
C10_FinalizeChecksProperties ==
    /\ InvalidProperties(this) =>
        /\ ~s.exists
        /\ phase \in {"constructed", "error"}
    /\ last.op \in FinalizingOperations =>
        /\ last.ret = "InvalidPropertyValue" <=> InvalidProperties(this)
        /\ last.ret = "ok" <=> ~InvalidProperties(this)
        /\ phase = "error" <=> InvalidProperties(this)

C10_Witness ==
    /\ phase = "error"
    /\ last.op = "initSystem"
    /\ last.ret = "InvalidPropertyValue"
    /\ this.tendon_compliance_dynamics_mode = "semi-implicit"
    /\ this.tendon_strain_at_one_norm_force > 0
    /\ this.passive_fiber_strain_at_one_norm_force > 0
    /\ this.activation_time_constant > 0
    /\ this.deactivation_time_constant > 0
    /\ ~s.exists

\* C11: computeStateVariableDerivatives writes the derivative of the
\* activation exactly when ignore_activation_dynamics is false; it writes
\* the derivative of the normalized tendon force exactly when the tendon is
\* compliant: the value of the differential equation when the mode is
\* explicit, the value of the discrete variable the solver supplied when
\* the mode is implicit.  It writes nothing else.
C11_DerivativesByConfiguration ==
    [][(last'.op = "computeStateVariableDerivatives") =>
        /\ s'.stateVariableDerivatives[STATE_ACTIVATION_NAME] =
            IF this.ignore_activation_dynamics
            THEN s.stateVariableDerivatives[STATE_ACTIVATION_NAME]
            ELSE calcActivationDerivative(this, getActivation(this, s),
                     s.controls)
        /\ this.ignore_activation_dynamics =>
            IsNaN(s'.stateVariableDerivatives[STATE_ACTIVATION_NAME])
        /\ s'.stateVariableDerivatives[STATE_NORMALIZED_TENDON_FORCE_NAME] =
            IF this.ignore_tendon_compliance
            THEN s.stateVariableDerivatives[
                     STATE_NORMALIZED_TENDON_FORCE_NAME]
            ELSE IF this.tendon_compliance_dynamics_mode = "explicit"
            THEN calcNormTendonForceDerivative(this, s)
            ELSE s.discreteVariables[DERIVATIVE_NORMALIZED_TENDON_FORCE_NAME]
        /\ this.ignore_tendon_compliance =>
            IsNaN(s'.stateVariableDerivatives[
                      STATE_NORMALIZED_TENDON_FORCE_NAME])
        /\ s' = [s EXCEPT !.stateVariableDerivatives =
                              s'.stateVariableDerivatives]]_vars

C11_Witness ==
    /\ phase = "simulating"
    /\ last.op = "computeStateVariableDerivatives"
    /\ ~this.ignore_tendon_compliance
    /\ ~this.ignore_activation_dynamics
    /\ this.tendon_compliance_dynamics_mode = "implicit"
    /\ s.stateVariableDerivatives[STATE_NORMALIZED_TENDON_FORCE_NAME] = 25000
    /\ IsFinite(calcNormTendonForceDerivative(this, s))
    /\ calcNormTendonForceDerivative(this, s) # 25000
    /\ IsFinite(s.stateVariableDerivatives[STATE_ACTIVATION_NAME])
    /\ s.stateVariableDerivatives[STATE_ACTIVATION_NAME] # 0

\* The values put into a slot to see whether an accessor reads it.
SlotValues == {NaN, 0, 25000, -13000}

\* C12: with a compliant tendon, getNormalizedTendonForceDerivative is the
\* value of the discrete variable of the derivative when the mode is
\* implicit and the derivative of the state variable normalized_tendon_force
\* when the mode is explicit; whatever is in the slot of the other mode, the
\* value returned is the same.
C12_DerivativeSlotByMode ==
    (s.exists /\ ~this.ignore_tendon_compliance) =>
        /\ this.tendon_compliance_dynamics_mode = "implicit" =>
            /\ getNormalizedTendonForceDerivative(this, s) =
                 s.discreteVariables[DERIVATIVE_NORMALIZED_TENDON_FORCE_NAME]
            /\ \A v \in SlotValues :
                 getNormalizedTendonForceDerivative(this,
                     [s EXCEPT !.stateVariableDerivatives[
                                   STATE_NORMALIZED_TENDON_FORCE_NAME] = v])
                 = getNormalizedTendonForceDerivative(this, s)
        /\ this.tendon_compliance_dynamics_mode = "explicit" =>
            /\ getNormalizedTendonForceDerivative(this, s) =
                 s.stateVariableDerivatives[STATE_NORMALIZED_TENDON_FORCE_NAME]
            /\ \A v \in SlotValues :
                 getNormalizedTendonForceDerivative(this,
                     [s EXCEPT !.discreteVariables[
                                   DERIVATIVE_NORMALIZED_TENDON_FORCE_NAME] = v])
                 = getNormalizedTendonForceDerivative(this, s)

C12_Witness ==
    /\ s.exists
    /\ ~this.ignore_tendon_compliance
    /\ this.tendon_compliance_dynamics_mode = "implicit"
    /\ last.op = "setDiscreteVariableValue"
    /\ s.discreteVariables[DERIVATIVE_NORMALIZED_TENDON_FORCE_NAME] = 0
    /\ s.stateVariableDerivatives[STATE_NORMALIZED_TENDON_FORCE_NAME] = 25000
    /\ getNormalizedTendonForceDerivative(this, s) = 0

C14_TendonForceBounds ==
    /\ getMinNormalizedTendonForce = 0
    /\ getMaxNormalizedTendonForce = 5 * Scale
    /\ \A st \in {s} \cup OtherStates :
        \A itc \in BOOLEAN, mode \in ModeValues, isExplicit \in BOOLEAN :
            /\ getBoundsNormalizedTendonForce(
                   [WithMode(this, mode, isExplicit)
                       EXCEPT !.ignore_tendon_compliance = itc], st)
               = <<getMinNormalizedTendonForce, getMaxNormalizedTendonForce>>
            /\ getBoundsNormalizedTendonForce(
                   [WithMode(this, mode, isExplicit)
                       EXCEPT !.ignore_tendon_compliance = itc], st)
               = <<0, 5 * Scale>>

C14_Witness ==
    /\ phase = "simulating"
    /\ last.op = "setNormalizedTendonForce"
    /\ last.arg = 60000
    /\ this.ignore_tendon_compliance
    /\ getBoundsNormalizedTendonForce(this, s)[1] = 0
    /\ getBoundsNormalizedTendonForce(this, s)[2] = 5 * Scale

\* C15: in every state of a muscle with a compliant tendon, whatever the
\* calls of setNormalizedTendonForce and computeInitialFiberEquilibrium
\* since the state was initialized, the state variable
\* normalized_tendon_force is between getMinNormalizedTendonForce() and
\* getMaxNormalizedTendonForce().
C15_TendonForceWithinBounds ==
    (s.exists /\ ~this.ignore_tendon_compliance) =>
        /\ Le(getMinNormalizedTendonForce,
              getStateVariableValue(s, STATE_NORMALIZED_TENDON_FORCE_NAME))
        /\ Le(getStateVariableValue(s, STATE_NORMALIZED_TENDON_FORCE_NAME),
              getMaxNormalizedTendonForce)

\* C16: when ignore_tendon_compliance is true, setNormalizedTendonForce
\* leaves the state as it is, for every value passed: the state variables,
\* the controls and the validity of the caches lengthInfo, velInfo and
\* dynamicsInfo are the same after the call as before it.
C16_RigidSetterSetsNothing ==
    (s.exists /\ this.ignore_tendon_compliance) =>
        /\ \A value \in SlotValues \cup NormTendonForceValues :
            setNormalizedTendonForce(this, s, value) = s
        /\ last.op = "setNormalizedTendonForce" =>
            IsNaN(getStateVariableValue(s, STATE_NORMALIZED_TENDON_FORCE_NAME))

C16_Witness ==
    /\ s.exists
    /\ this.ignore_tendon_compliance
    /\ last.op = "setNormalizedTendonForce"
    /\ last.arg = 60000
    /\ s.cacheValid.lengthInfo
    /\ s.cacheValid.velInfo
    /\ s.cacheValid.dynamicsInfo
    /\ s.controls = 10000

\* C17: when calls of estimateMuscleFiberState and of the curve functions
\* on one finalized muscle interleave, each with inputs of its own, every
\* call returns what it returns when it runs alone, and the parameters and
\* the computed members of the muscle stay as the finalization left them.
C17_ConcurrentCallsIndependent ==
    es.pc = "concurrent" =>
        /\ this = extendFinalizeFromProperties(this)
        /\ \A t \in Threads :
            /\ es.calls[t].pc = "done" =>
                es.calls[t].ret =
                    estimateMuscleFiberState(this, es.calls[t].in.activation,
                        es.calls[t].in.muscleTendonLength,
                        es.calls[t].in.muscleTendonVelocity,
                        es.calls[t].in.normTendonForceDerivative,
                        es.calls[t].in.tolerance,
                        es.calls[t].in.maxIterations)
            /\ es.calls[t].pc = "curves" =>
                es.calls[t].ret = EvaluateCurves(this, es.calls[t].in)

C17_Witness ==
    /\ es.pc = "concurrent"
    /\ es.calls[1].pc = "done"
    /\ es.calls[2].pc = "done"
    /\ es.calls[1].in.muscleTendonLength = 30000
    /\ es.calls[2].in.muscleTendonLength = 52000
    /\ es.calls[1].ret.status = "Warning_FiberAtLowerBound"
    /\ es.calls[2].ret.status = "Success_Converged"
    /\ es.calls[2].ret.values.iterations >= 2

---------------------------------------------------------------------------
(* Claims about the curves, under CurveSpec.                               *)

\* The tolerance of the comparisons of fixed-point results: 0.01.
FloatingTolerance == Scale \div 100

Within(a, b) == Le(abs(Sub(a, b)), FloatingTolerance)

\* C18: with a positive passive_fiber_strain_at_one_norm_force,
\* calcPassiveForceMultiplier is 0 at the normalized fiber length 0.2
\* (minNormFiberLength) and strictly increasing above it; with
\* ignore_passive_fiber_force it, its derivative and its integral are 0 for
\* every argument, the values that are not finite included.
C18_PassiveForceCurve ==
    /\ Gt(get_passive_fiber_strain_at_one_norm_force(this), 0)
    /\ ~get_ignore_passive_fiber_force(this) =>
        /\ calcPassiveForceMultiplier(this, m_minNormFiberLength) = 0
        /\ \A x, y \in NormFiberLengths :
              x < y => Lt(calcPassiveForceMultiplier(this, x),
                          calcPassiveForceMultiplier(this, y))
    /\ get_ignore_passive_fiber_force(this) =>
        \A x \in NormFiberLengths \cup OtherArguments :
            /\ calcPassiveForceMultiplier(this, x) = 0
            /\ calcPassiveForceMultiplierDerivative(this, x) = 0
            /\ calcPassiveForceMultiplierIntegral(this, x) = 0
    /\ (get_ignore_passive_fiber_force(this)
        /\ last.op \in {"calcPassiveForceMultiplier",
                        "calcPassiveForceMultiplierDerivative",
                        "calcPassiveForceMultiplierIntegral"}) => last.ret = 0

C18_Witness ==
    /\ ~get_ignore_passive_fiber_force(this)
    /\ get_passive_fiber_strain_at_one_norm_force(this) = 10000
    /\ last.op = "calcPassiveForceMultiplier"
    /\ last.arg = 14000
    /\ Gt(last.ret, calcPassiveForceMultiplier(this, 12000))
    /\ Gt(calcPassiveForceMultiplier(this, 12000), 0)

\* C19: calcForceVelocityInverseCurve gives back, within the tolerance,
\* every normalized fiber velocity in [-1, 1] from its
\* calcForceVelocityMultiplier; the multiplier is 0 at the velocity -1 and 1
\* at the velocity 0, within the tolerance.
C19_ForceVelocityRoundTrip ==
    /\ \A v \in NormFiberVelocities :
          Within(calcForceVelocityInverseCurve(calcForceVelocityMultiplier(v)), v)
    /\ Within(calcForceVelocityMultiplier(-Scale), 0)
    /\ Within(calcForceVelocityMultiplier(0), Scale)
    /\ last.op = "calcForceVelocityInverseCurve" =>
          \E v \in NormFiberVelocities :
              /\ last.arg = calcForceVelocityMultiplier(v)
              /\ Within(last.ret, v)

C19_Witness ==
    /\ last.op = "calcForceVelocityInverseCurve"
    /\ last.arg = calcForceVelocityMultiplier(Scale)
    /\ Gt(last.arg, Scale)
    /\ Within(last.ret, Scale)

\* C20: with a positive tendon stiffness kT,
\* calcTendonForceLengthInverseCurve gives back every normalized tendon
\* length around the slack length from its calcTendonForceMultiplier; its
\* result is finite only for a normalized tendon force above -c3, and at or
\* below -c3 the argument is used as it is, not moved into the domain.
C20_TendonForceLengthRoundTrip ==
    /\ Gt(this.m_kT, 0)
    /\ \A x \in NormTendonLengths :
          Within(calcTendonForceLengthInverseCurve(this,
                     calcTendonForceMultiplier(this, x)), x)
    /\ IsFinite(calcTendonForceLengthInverseCurve(this, -c3 + 1))
    /\ calcTendonForceLengthInverseCurve(this, -c3) = -Infinity
    /\ \A f \in {-c3 - 1, -Scale, NaN} :
          IsNaN(calcTendonForceLengthInverseCurve(this, f))
    /\ last.op = "calcTendonForceLengthInverseCurve" =>
          (IsFinite(last.ret) <=> Gt(last.arg, -c3))

C20_Witness ==
    /\ get_tendon_strain_at_one_norm_force(this) = 490
    /\ last.op = "calcTendonForceLengthInverseCurve"
    /\ last.arg = calcTendonForceMultiplier(this, 10490)
    /\ Within(last.arg, Scale)
    /\ Within(last.ret, 10490)

\* The muscle with the active force-length curve at its own width.
Unscaled(self) == [self EXCEPT !.active_force_width_scale = Scale]

\* C21: for a positive active_force_width_scale s, the active force-length
\* multiplier at the normalized fiber length 1 is the one of the unscaled
\* curve, 1.0 within the tolerance, and the derivative there is the
\* derivative of the unscaled curve divided by s.
C21_WidthScaleKeepsPeak ==
    /\ Gt(get_active_force_width_scale(this), 0)
    /\ calcActiveForceLengthMultiplier(this, Scale) =
           calcActiveForceLengthMultiplier(Unscaled(this), Scale)
    /\ Within(calcActiveForceLengthMultiplier(this, Scale), Scale)
    /\ Within(calcActiveForceLengthMultiplierDerivative(this, Scale),
              Div(calcActiveForceLengthMultiplierDerivative(Unscaled(this), Scale),
                  get_active_force_width_scale(this)))
    /\ (last.op = "calcActiveForceLengthMultiplier" /\ last.arg = Scale) =>
           Within(last.ret, Scale)

C21_Witness ==
    /\ get_active_force_width_scale(this) = 20000
    /\ last.op = "calcActiveForceLengthMultiplier"
    /\ last.arg = Scale
    /\ Within(last.ret, Scale)
    /\ calcActiveForceLengthMultiplier(this, 14000) #
           calcActiveForceLengthMultiplier(Unscaled(this), 14000)

---------------------------------------------------------------------------
(* Claims about the pennation geometry, under PennationSpec.               *)

\* C23: in every iterate of estimateMuscleFiberState the fiber length given
\* to calcPartialPennationAnglePartialFiberLength is strictly greater than
\* the fiber width, for every pennation angle at the optimal fiber length.
C23_FiberLengthAboveWidth ==
    es.pc \in {"loop", "done"} => Gt(es.r.fiberLength, this.m_fiberWidth)

\* The same for the muscles whose fiber width is below the lower bound of
\* the fiber length.
C23_SmallPennation ==
    (es.pc \in {"loop", "done"} /\ Lt(this.m_fiberWidth, minFiberLength(this)))
        => Gt(es.r.fiberLength, this.m_fiberWidth)

---------------------------------------------------------------------------
(* Claims about calcFiberForce, under FiberForceSpec.                      *)

\* Two forces equal up to the rounding of the products: 0.0004.
SameForce(a, b) == Le(abs(Sub(a, b)), Scale \div 2500)

\* C22: calcFiberForce returns the active force maxIsometricForce x
\* activation x activeForceLengthMultiplier x forceVelocityMultiplier, the
\* conservative passive force maxIsometricForce x normPassiveFiberForce, the
\* damping force maxIsometricForce x fiber_damping x normFiberVelocity, and
\* their sum as the total; with activation 1, both multipliers 1 and zero
\* velocity the total is maxIsometricForce x (1 + normPassiveFiberForce).
C22_FiberForceComponents ==
    \A a \in FiberForceArguments :
        LET F == get_max_isometric_force(this)
            r == calcFiberForce(this, a.activation,
                     a.activeForceLengthMultiplier, a.forceVelocityMultiplier,
                     a.normPassiveFiberForce, a.normFiberVelocity)
        IN  /\ SameForce(r.activeFiberForce,
                   Mul(Mul(Mul(F, a.activation), a.activeForceLengthMultiplier),
                       a.forceVelocityMultiplier))
            /\ r.conPassiveFiberForce = (F * a.normPassiveFiberForce) \div Scale
            /\ SameForce(r.nonConPassiveFiberForce,
                   Mul(F, Mul(get_fiber_damping(this), a.normFiberVelocity)))
            /\ r.totalFiberForce = r.activeFiberForce + r.conPassiveFiberForce
                                   + r.nonConPassiveFiberForce
            /\ (a.activation = Scale /\ a.activeForceLengthMultiplier = Scale
                /\ a.forceVelocityMultiplier = Scale /\ a.normFiberVelocity = 0)
               => r.totalFiberForce =
                      (F * (Scale + a.normPassiveFiberForce)) \div Scale

C22_Witness ==
    /\ get_max_isometric_force(this) = 25000
    /\ get_fiber_damping(this) = 1000
    /\ last.op = "calcFiberForce"
    /\ last.arg.activation = 5000
    /\ last.arg.normFiberVelocity = 5000
    /\ last.arg.normPassiveFiberForce = 3000
    /\ last.ret.activeFiberForce > 0
    /\ last.ret.conPassiveFiberForce = 7500
    /\ last.ret.nonConPassiveFiberForce = 1250
    /\ last.ret.totalFiberForce =
           last.ret.activeFiberForce + 7500 + 1250

---------------------------------------------------------------------------
(* Claims about the reads through the cache, under InfoSpec.               *)

NormalizedTendonForceOf(st) ==
    getStateVariableValue(st, STATE_NORMALIZED_TENDON_FORCE_NAME)

\* C24: with a compliant tendon, getNormalizedTendonForce after
\* setNormalizedTendonForce(s, f) returns f, the setter leaves the three
\* caches invalid, and a cache that is valid holds the info of the
\* normalized tendon force the state has now.
C24_TendonForceRoundTrip ==
    ~get_ignore_tendon_compliance(this) =>
        /\ \A f \in SlotValues \cup NormTendonForceValues :
            /\ getNormalizedTendonForce(this,
                   setNormalizedTendonForce(this, s, f)) = f
            /\ setNormalizedTendonForce(this, s, f).cacheValid =
                   [lengthInfo |-> FALSE, velInfo |-> FALSE,
                    dynamicsInfo |-> FALSE]
        /\ s.cacheValid.lengthInfo => s.mli = calcMuscleLengthInfo(this, s)
        /\ s.cacheValid.velInfo =>
               s.fvi = calcFiberVelocityInfo(this,
                           setActivation(this, s, s.fvi.activation), s.mli)
        /\ s.cacheValid.dynamicsInfo =>
               s.mdi.tendonForce =
                   Mul(get_max_isometric_force(this), NormalizedTendonForceOf(s))
        /\ last.op = "getNormalizedTendonForce" =>
               last.ret = NormalizedTendonForceOf(s)

C24_Witness ==
    /\ ~get_ignore_tendon_compliance(this)
    /\ last.op = "getNormalizedTendonForce"
    /\ last.ret = 60000
    /\ s.mdi.computed
    /\ s.mdi.tendonForce # Mul(get_max_isometric_force(this), 60000)
    /\ ~s.cacheValid.lengthInfo
    /\ ~s.cacheValid.velInfo
    /\ ~s.cacheValid.dynamicsInfo

C26_NormalizedTendonForceSource ==
    /\ ~get_ignore_tendon_compliance(this) =>
           getNormalizedTendonForce(this, s) = NormalizedTendonForceOf(s)
    /\ get_ignore_tendon_compliance(this) =>
        /\ getNormalizedTendonForce(this, s) =
               Div(getMuscleDynamicsInfo(this, s).mdi.fiberForceAlongTendon,
                   get_max_isometric_force(this))
        /\ \A v \in SlotValues :
               getNormalizedTendonForce(this,
                   [s EXCEPT !.stateVariables[STATE_NORMALIZED_TENDON_FORCE_NAME]
                                 = v]) = getNormalizedTendonForce(this, s)
    /\ last.op = "getNormalizedTendonForce" =>
           last.ret = getNormalizedTendonForce(this, s)

C26_Witness ==
    /\ get_ignore_tendon_compliance(this)
    /\ last.op = "getNormalizedTendonForce"
    /\ IsNaN(NormalizedTendonForceOf(s))
    /\ Gt(last.ret, 0)
    /\ IsFinite(last.ret)
    /\ Mul(last.ret, get_max_isometric_force(this)) # last.ret

ResidualForces == {-5000, 0, 5000, 25000}

\* C27: getEquilibriumResidual is the tendon force minus the fiber force
\* along the tendon of the dynamics info of the state, and so is
\* calcEquilibriumResidual of its arguments: zero exactly when the two
\* forces are equal, positive when the tendon force is the larger, negative
\* when it is the smaller.
C27_ResidualSign ==
    /\ \A a, b \in ResidualForces :
        /\ calcEquilibriumResidual(a, b) = a - b
        /\ calcEquilibriumResidual(a, b) = 0 <=> a = b
        /\ calcEquilibriumResidual(a, b) > 0 <=> a > b
    /\ (IsFinite(getMuscleDynamicsInfo(this, s).mdi.tendonForce)
        /\ IsFinite(getMuscleDynamicsInfo(this, s).mdi.fiberForceAlongTendon)) =>
        /\ getEquilibriumResidual(this, s) =
               getMuscleDynamicsInfo(this, s).mdi.tendonForce
               - getMuscleDynamicsInfo(this, s).mdi.fiberForceAlongTendon
        /\ last.op = "getEquilibriumResidual" =>
               last.ret = s.mdi.tendonForce - s.mdi.fiberForceAlongTendon

C27_Witness ==
    /\ last.op = "getEquilibriumResidual"
    /\ IsFinite(last.ret)
    /\ last.ret > 0
    /\ s.mdi.fiberForceAlongTendon > 0
    /\ s.mdi.tendonForce > s.mdi.fiberForceAlongTendon

---------------------------------------------------------------------------
(* Claims about the model operators, under Spec.                          *)

OperatorScaleFactors == ScaleFactorValues \cup {10000, 20000}

\* What the four operators make of a model mdl whose finalization gives
\* the model finalized: the property set on every muscle the operator
\* ranges over, the other muscles as they were.
OperatorsTotal(mdl, finalized) ==
    \A i \in Muscles :
        /\ ModOpIgnoreTendonCompliance_operate(finalized)[i]
               .ignore_tendon_compliance
        /\ ModOpIgnoreActivationDynamics_operate(finalized)[i]
               .ignore_activation_dynamics
        /\ IsDeGrooteFregly2016Muscle(mdl[i]) =>
            /\ ModOpIgnorePassiveFiberForces_operate(finalized)[i]
                   .ignore_passive_fiber_force
            /\ \A f \in OperatorScaleFactors :
                   ModOpScaleActiveFiberForceCurveWidth_operate(finalized, f)[i]
                       .active_force_width_scale = f
        /\ ~IsDeGrooteFregly2016Muscle(mdl[i]) =>
            /\ ModOpIgnorePassiveFiberForces_operate(finalized)[i] = mdl[i]
            /\ \A f \in OperatorScaleFactors :
                   ModOpScaleActiveFiberForceCurveWidth_operate(finalized, f)[i]
                       = mdl[i]

\* operate() on the model that a first operate() gave, operated, gives
\* that model again.
SecondOperateKeeps(operated, again) ==
    /\ FinalizeSucceeds(operated)
    /\ again = operated

OperatorsIdempotent(finalized) ==
    /\ SecondOperateKeeps(ModOpIgnoreTendonCompliance_operate(finalized),
           ModOpIgnoreTendonCompliance_operate(FinalizedModel(
               ModOpIgnoreTendonCompliance_operate(finalized))))
    /\ SecondOperateKeeps(ModOpIgnoreActivationDynamics_operate(finalized),
           ModOpIgnoreActivationDynamics_operate(FinalizedModel(
               ModOpIgnoreActivationDynamics_operate(finalized))))
    /\ SecondOperateKeeps(ModOpIgnorePassiveFiberForces_operate(finalized),
           ModOpIgnorePassiveFiberForces_operate(FinalizedModel(
               ModOpIgnorePassiveFiberForces_operate(finalized))))
    /\ \A f \in OperatorScaleFactors :
           SecondOperateKeeps(
               ModOpScaleActiveFiberForceCurveWidth_operate(finalized, f),
               ModOpScaleActiveFiberForceCurveWidth_operate(FinalizedModel(
                   ModOpScaleActiveFiberForceCurveWidth_operate(finalized, f)),
                   f))

\* C28: an operator that returns has set its property on every muscle it
\* ranges over: ignore_tendon_compliance and ignore_activation_dynamics on
\* every muscle, ignore_passive_fiber_force and active_force_width_scale on
\* every DeGrooteFregly2016Muscle; applying it a second time gives the model
\* that applying it once gives; the two operators that range over
\* DeGrooteFregly2016Muscle leave the muscles of other classes as they were.
\* The operators act on a model that is constructed or finalized and whose
\* finalization succeeds.
C28_OperatorsTotalIdempotent ==
    /\ (phase \in {"constructed", "finalized"} /\ FinalizeSucceeds(model)) =>
        /\ OperatorsTotal(model, FinalizedModel(model))
        /\ OperatorsIdempotent(FinalizedModel(model))
    /\ last.ret = "ok" =>
        /\ last.op = "ModOpIgnoreTendonCompliance" =>
               \A i \in Muscles : model[i].ignore_tendon_compliance
        /\ last.op = "ModOpIgnoreActivationDynamics" =>
               \A i \in Muscles : model[i].ignore_activation_dynamics
        /\ last.op = "ModOpIgnorePassiveFiberForces" =>
               \A i \in Muscles :
                   IsDeGrooteFregly2016Muscle(model[i]) =>
                       model[i].ignore_passive_fiber_force
        /\ last.op = "ModOpScaleActiveFiberForceCurveWidth" =>
               \A i \in Muscles :
                   IsDeGrooteFregly2016Muscle(model[i]) =>
                       model[i].active_force_width_scale = last.arg

C28_Witness ==
    /\ last.op = "ModOpScaleActiveFiberForceCurveWidth"
    /\ last.ret = "ok"
    /\ model[1].active_force_width_scale = 15000
    /\ model[1].ignore_passive_fiber_force
    /\ ~model[1].ignore_tendon_compliance
    /\ \E i \in Muscles : ~IsDeGrooteFregly2016Muscle(model[i])

---------------------------------------------------------------------------
(* Claims about PropertyDbl, under PropertySpec.                          *)

ValueWrites == {"setValue", "getValueDbl() ="}

CopyCalls == {"PropertyDbl(aProperty)", "copy", "operator="}

\* The text that printf gives for "%g" and each of the doubles written.
TextOfValue(value) ==
    IF value = 0 THEN "0"
    ELSE IF value = 15000 THEN "1.5"
    ELSE IF value = -1234567 THEN "-123.457"
    ELSE "nan"

\* C29: a constructor leaves the value it is given (0.0 without one), a
\* setValue or a write through the reference of getValueDbl leaves the value
\* written, no call but a write to a property or an assignment to it
\* changes its value, getValueDbl returns the value the property holds and
\* toString the %g text of that value: between two writes every read gives
\* the value of the first.
C29_LastValueWritten ==
    [][/\ last'.op = "PropertyDbl()" =>
              model'[last'.arg.target]._value = 0
       /\ last'.op \in {"PropertyDbl(aName, aValue)"} \cup ValueWrites =>
              model'[last'.arg.target]._value = last'.arg.value
       /\ last'.op = "getValueDbl" =>
              /\ last'.ret = model[last'.arg.target]._value
              /\ model' = model
       /\ last'.op = "toString" =>
              /\ last'.ret = FormatG(model[last'.arg.target]._value)
              /\ last'.ret = TextOfValue(model[last'.arg.target]._value)
       /\ \A x \in Properties :
              (/\ model[x].exists
               /\ ~(/\ x = last'.arg.target
                    /\ last'.op \in ValueWrites \cup {"operator="})) =>
                  /\ model'[x].exists
                  /\ model'[x]._value = model[x]._value]_vars

C29_Witness ==
    /\ last.op = "toString"
    /\ last.arg.target = "q"
    /\ last.ret = "-123.457"
    /\ model["q"]._value = -1234567
    /\ model["q"]._name = "DblPropertyName"
    /\ model["p"].exists
    /\ model["p"]._valueString = "1.5"
    /\ model["p"]._value = 0

\* C30: the copy constructor, copy() and operator= leave in the target the
\* value the source has at the call and leave the source as it was; a
\* setValue, or a write through the reference, on one property leaves every
\* other property as it was.
C30_CopiesIndependent ==
    [][/\ last'.op \in CopyCalls =>
              /\ model'[last'.arg.target].exists
              /\ model'[last'.arg.target]._value
                     = model[last'.arg.source]._value
              /\ model'[last'.arg.source]._value
                     = model[last'.arg.source]._value
              /\ last'.arg.source # last'.arg.target =>
                     model'[last'.arg.source] = model[last'.arg.source]
       /\ last'.op \in ValueWrites =>
              \A x \in Properties \ {last'.arg.target} :
                  model'[x] = model[x]]_vars

C30_Witness ==
    /\ last.op = "copy"
    /\ last.ret = "q"
    /\ last.arg.source = "p"
    /\ model["q"]._value = -1234567
    /\ model["p"]._value = -1234567
    /\ model["p"]._valueString = "1.5"
    /\ model["q"]._valueString = ""

=============================================================================
